---- MODULE Spec2Model ----
(***************************************************************************)
(* State-machine model of xnatio: the batch splitter, the parallel REST    *)
(* import uploader, the retry engine, the DICOM C-STORE sender, the scan   *)
(* deletion service, the connection objects, the session download with    *)
(* its extraction and the zipped resource upload.                          *)
(* Each subsystem has its own variables and its own specification; a       *)
(* specification holds the other subsystems' variables at their idle       *)
(* values.                                                                 *)
(***************************************************************************)
EXTENDS Integers, Sequences, FiniteSets, TLC

VARIABLES
    \* split_into_batches (uploaders/common.py)
    files,          \* the `files` argument
    num_batches,    \* the `num_batches` argument
    batches,        \* the returned list of batches
    splitPc,        \* "call" before the call, "done" after it
    \* upload_dicom_parallel_rest (uploaders/parallel_rest.py); its locals
    \* files, num_batches and batches are the variables above
    source_is_dir,  \* source_dir exists and is a directory
    source_files,   \* the DICOM-like files under source_dir, sorted
    archive_workers,
    upload_workers,
    archive_format,
    pc,             \* position of the calling thread
    temp_dir,       \* "none", "exists" or "removed"
    archive_futures,\* batch index -> state of its create_archive future
    completed,      \* archive futures consumed by the as_completed loop
    futures,        \* batch id -> state of its upload_batch future
    conn,           \* batch id -> XNATSession.session of the worker ("None"/"Session")
    http,           \* batch id -> requests the worker has sent, in order
    results,        \* List[UploadResult], in completion order
    errors,         \* List[str]
    exit,           \* "none", "returned" or "raised"
    summary,        \* the UploadSummary returned
    events,         \* the phases of the UploadProgress events reported, in order
    \* XNATConnection.retry_on_network_error (services/base.py)
    max_retries,
    backoff_base,
    attempt,        \* the loop variable
    last_exc,       \* the last caught exception
    calls,          \* what each invocation of fn did, in order
    sleeps,         \* the time.sleep arguments, in order
    retryPc,        \* "loop", "returned" or "raised"
    retryOut,       \* the value returned or the exception raised
    \* send_dicom_store (uploaders/dicom_store.py); its local files is the
    \* variable above
    dicom_root_is_dir,
    dicom_root_files,   \* the DICOM-like files under dicom_root
    store_batches,  \* the `batches` argument
    cleanup,
    echo,           \* what the pre-flight C-ECHO meets
    chunks,
    work,           \* the workspace directory: "none", "exists" or "removed"
    send,           \* chunk index -> state of its send_batch task
    consumed,       \* send_batch futures consumed by the as_completed loop
    sent_total,
    failed_total,
    storePc,        \* position of the calling thread
    storeExit,      \* "none", "returned" or "raised"
    storeSummary,   \* the DICOMStoreSummary returned
    storeError,     \* the exception send_dicom_store raised ("" when none)
    \* ScanService.delete_scans (services/scans.py)
    server_scans,   \* the scans the session holds on the server
    list_outcome,   \* what the listing requests of list_scans meet
    scan_ids,       \* the `scan_ids` argument
    dry_run,
    parallel,
    max_workers,
    inherit_context,\* the interpreter runs with thread_inherit_context
    ctx,            \* thread -> value of the _correlation_id contextvar
    generated,      \* correlation ids generated so far
    available_scans,
    scans_to_delete,
    skipped,
    deleted,
    failed,         \* the failed dict, as (scan id, message) pairs
    jobs,           \* position in scans_to_delete -> state of its _delete_one
    yielded,        \* results the calling thread has taken
    audit,          \* the records written by AuditLogger.log_operation
    scansPc,        \* position of the calling thread
    scansExit,      \* "none", "returned" or "raised"
    scansResult,    \* the dict returned
    scansError,     \* the exception delete_scans raised ("" when none)
    \* XNATConnection (services/base.py) and XNATSession
    \* (uploaders/parallel_rest.py) as objects called by tasks
    conn_kind,      \* the class of the object
    interface,      \* XNATConnection._interface: None or the Interface stored
    created,        \* Interface objects built since construction
    epoch_created,  \* Interface objects built since construction or close()
    live,           \* Interface objects built and not disconnected
    released,       \* close() has disconnected an interface
    closes,         \* calls of close()
    started,        \* requests the tasks have started
    threads,        \* task -> its position inside conn.get
    requests,       \* the requests sent through the connection
    xs_session,     \* XNATSession.session ("None"/"Session")
    xs_http,        \* the requests an XNATSession has sent, in order
    xs_calls,       \* method calls made on the XNATSession
    \* DownloadService.download_session and extract_session_downloads
    \* (services/downloads.py), as handle_download_session runs them
    include_assessors,
    include_recons,
    dl_parallel,    \* the `parallel` argument
    dl_workers,     \* the `max_workers` argument
    labels,         \* the resource labels of the session
    unzip,          \* the --unzip option
    tasks,          \* the task list, each task with its state
    dl_yielded,     \* results the calling thread has taken
    disk,           \* the zip files in the session directory
    zip_entries,    \* the entry names of the downloaded zips
    zips,           \* the zips still to extract, sorted
    written,        \* the files the extraction has written
    dl_audit,       \* the audit records of download_session
    dlPc,           \* position of the calling thread
    dlExit,         \* "none", "returned" or "raised"
    dlError,        \* the exception raised ("" when none)
    \* UploadService.upload_session_resource_zip_dir (services/uploads.py) with
    \* zip_dir_to_temp (core/utils.py); its retried upload runs on the
    \* retry_on_network_error variables above
    local_files,    \* sorted(local_dir.rglob("*")): the kind of each path
    tmp_zip,        \* the temporary zip: "none", "exists" or "removed"
    zip_index,      \* the next path of local_files to visit
    zip_members,    \* members written to the zip
    zip_audit,      \* the audit records of the operation
    zipPc,          \* position of the calling thread
    zipExit,        \* "none", "returned" or "raised"
    zipError        \* the exception in flight or raised ("" when none)

splitVars == <<files, num_batches, batches, splitPc>>
uploadInputs == <<source_is_dir, source_files, archive_workers, upload_workers,
                  archive_format>>
uploadVars == <<uploadInputs, pc, temp_dir, archive_futures, completed, futures,
                conn, http, results, errors, exit, summary, events>>

retryVars == <<max_retries, backoff_base, attempt, last_exc, calls, sleeps, retryPc,
               retryOut>>

storeInputs == <<dicom_root_is_dir, dicom_root_files, store_batches, cleanup, echo>>
storeVars == <<storeInputs, chunks, work, send, consumed, sent_total, failed_total,
               storePc, storeExit, storeSummary, storeError>>

scansInputs == <<server_scans, list_outcome, scan_ids, dry_run, parallel,
                 max_workers, inherit_context>>
scansVars == <<scansInputs, ctx, generated, available_scans, scans_to_delete,
               skipped, deleted, failed, jobs, yielded, audit, scansPc, scansExit,
               scansResult, scansError>>

connVars == <<conn_kind, interface, created, epoch_created, live, released, closes,
              started, threads, requests, xs_session, xs_http, xs_calls>>

dlInputs == <<include_assessors, include_recons, dl_parallel, dl_workers, labels,
              unzip>>
downloadVars == <<dlInputs, tasks, dl_yielded, disk, zip_entries, zips, written,
                  dl_audit, dlPc, dlExit, dlError>>

zipVars == <<local_files, tmp_zip, zip_index, zip_members, zip_audit, zipPc, zipExit,
             zipError>>

serviceVars == <<scansVars, connVars, downloadVars, zipVars>>

vars == <<splitVars, uploadVars, retryVars, storeVars, serviceVars>>

\* what the actions of one subsystem leave alone
outsideSplit == <<uploadVars, retryVars, storeVars, serviceVars>>
outsideUpload == <<retryVars, storeVars, serviceVars>>
outsideRetry == <<splitVars, uploadVars, storeVars, serviceVars>>
outsideStore == <<num_batches, batches, splitPc, uploadVars, retryVars,
                  serviceVars>>
programVars == <<splitVars, uploadVars, retryVars, storeVars>>
outsideScans == <<programVars, connVars, downloadVars, zipVars>>
outsideConn == <<programVars, scansVars, downloadVars, zipVars>>
outsideDownload == <<programVars, scansVars, connVars, zipVars>>
outsideZip == <<splitVars, uploadVars, storeVars, scansVars, connVars, downloadVars>>

\* ------------------------------------------------------------------ bounds
MaxFiles == 4       \* files in a source directory
MaxBatches == 5     \* largest requested batch count
MaxUploadFiles == 2 \* files in the source directory of an upload run
MaxWorkers == 2     \* largest archive_workers / upload_workers
MaxRetries == 4     \* largest max_retries
MaxStoreFiles == 3  \* files under the dicom_root of a C-STORE run
MaxRequested == 2   \* scan IDs in one delete_scans request
MaxScanWorkers == 2 \* largest max_workers of delete_scans
MaxConnThreads == 2 \* tasks sharing one XNATConnection
MaxRequests == 4    \* requests started through one XNATConnection
MaxCloses == 2      \* calls of XNATConnection.close
MaxSessionCalls == 4 \* method calls on one XNATSession
MaxDlWorkers == 2   \* largest max_workers of download_session
MaxEntries == 2     \* entries of a downloaded zip
MaxZipPaths == 2    \* paths under the local_dir of a zipped resource upload

\* ----------------------------------------------------------------- helpers
Min(a, b) == IF a <= b THEN a ELSE b
Max(a, b) == IF a >= b THEN a ELSE b

Range(s) == {s[i] : i \in 1..Len(s)}

\* the duplicate-free sequences over S: the file lists a directory scan yields
DupFreeSeqs(S) ==
    UNION {{s \in [1..n -> S] : \A i, j \in 1..n : i # j => s[i] # s[j]} :
              n \in 0..Cardinality(S)}

FileIds == 1..MaxFiles

\* --------------------------------------------------------- split_into_batches
\* for idx, file_path in enumerate(files): batches[idx % actual_batches].append(file_path)
RECURSIVE RoundRobin(_, _, _, _)
RoundRobin(fs, actual_batches, idx, acc) ==
    IF idx >= Len(fs) THEN acc
    ELSE RoundRobin(fs, actual_batches, idx + 1,
             [acc EXCEPT ![(idx % actual_batches) + 1] = Append(@, fs[idx + 1])])

\* a mis-implementation: contiguous chunks of ceil(len/n) files
ChunkedSplit(fs, n) ==
    IF Len(fs) = 0 THEN <<>>
    ELSE IF n <= 0 THEN <<fs>>
    ELSE LET actual == Min(n, Len(fs))
             size == (Len(fs) + actual - 1) \div actual
         IN [b \in 1..actual |->
                SubSeq(fs, Min((b - 1) * size + 1, Len(fs) + 1), Min(b * size, Len(fs)))]

\* a mis-implementation: the requested number of batches is made even when
\* there are fewer files
SplitUncapped(fs, n) ==
    IF Len(fs) = 0 THEN <<>>
    ELSE IF n <= 0 THEN <<fs>>
    ELSE RoundRobin(fs, n, 0, [b \in 1..n |-> <<>>])

split_into_batches(fs, n) ==
    IF Len(fs) = 0 THEN <<>>
    ELSE IF n <= 0 THEN <<fs>>
    ELSE LET actual_batches == Min(n, Len(fs))
         IN RoundRobin(fs, actual_batches, 0, [b \in 1..actual_batches |-> <<>>])

\* ------------------------------------------------- upload_dicom_parallel_rest
ArchiveFormats == {"tar", "zip", "rar"}

\* outcomes of the authentication POST to /data/JSESSION
AuthOutcomes == {"200", "non200", "html", "exc"}
\* outcomes of the import POST to /data/services/import
ImportOutcomes == {"200", "non200", "timeout", "exc"}

AUTH == "POST /data/JSESSION"
IMPORT == "POST /data/services/import"
RELEASE == "DELETE /data/JSESSION"

\* sorted(files): the ascending sequence of a set of file ids
RECURSIVE Sorted(_)
Sorted(S) ==
    IF S = {} THEN <<>>
    ELSE LET m == CHOOSE x \in S : \A y \in S : x <= y
         IN <<m>> \o Sorted(S \ {m})

\* collect_dicom_files: raises ValueError unless root is a directory
collect_dicom_files(is_dir, dir_files) ==
    IF is_dir THEN [raised |-> FALSE, files |-> Sorted(dir_files)]
    ELSE [raised |-> TRUE, files |-> <<>>]

\* create_archive: ValueError for an unsupported format, else the archive is
\* written unless reading a file or writing the archive fails (io_ok = FALSE)
create_archive(fmt, io_ok) ==
    IF fmt = "tar" THEN (IF io_ok THEN "ok" ELSE "failed")
    ELSE IF fmt = "zip" THEN (IF io_ok THEN "ok" ELSE "failed")
    ELSE "failed"

UploadResult(batch_id, success, file_count, error) ==
    [batch_id |-> batch_id, success |-> success, file_count |-> file_count,
     error |-> error]

NoResult == UploadResult(0, FALSE, 0, "")

UploadSummary(success, total_files, batches_succeeded, batches_failed, errs) ==
    [success |-> success, total_files |-> total_files,
     batches_succeeded |-> batches_succeeded, batches_failed |-> batches_failed,
     errors |-> errs]

NoSummary == UploadSummary(FALSE, 0, 0, 0, <<>>)

\* XNATSession.open_session: the session object is created, the POST is sent,
\* and ConnectionError is raised unless the answer is a 200 without "<html"
open_session(outcome) ==
    [session |-> "Session",
     sent    |-> <<AUTH>>,
     raised  |-> outcome # "200",
     error   |-> CASE outcome = "200" -> ""
                   [] outcome = "non200" -> "Failed to connect to XNAT: 401"
                   [] outcome = "html" ->
                        "Authentication failed - password may have expired"
                   [] OTHER -> "connection refused"]

\* XNATSession.close_session: nothing without a session object, else a DELETE
\* whose failure is swallowed
close_session(session) ==
    IF session = "None" THEN <<>> ELSE <<RELEASE>>

\* a mis-implementation: a failed import is sent again
UploadArchiveAgain(session, outcome) ==
    IF session = "None"
    THEN [raised |-> TRUE, success |-> FALSE, error |-> "XNAT session is not open",
          sent |-> <<>>]
    ELSE [raised |-> FALSE,
          success |-> outcome = "200",
          error |-> IF outcome = "200" THEN "" ELSE "failed twice",
          sent |-> IF outcome = "200" THEN <<IMPORT>> ELSE <<IMPORT, IMPORT>>]

\* XNATSession.upload_archive: (success, error) and the requests sent
upload_archive(session, outcome) ==
    IF session = "None"
    THEN [raised |-> TRUE, success |-> FALSE, error |-> "XNAT session is not open",
          sent |-> <<>>]
    ELSE [raised |-> FALSE,
          success |-> outcome = "200",
          error |-> CASE outcome = "200" -> ""
                      [] outcome = "non200" -> "Status 500: broken"
                      [] outcome = "timeout" -> "Upload timed out"
                      [] OTHER -> "connection aborted",
          sent |-> <<IMPORT>>]

CountSucceeded(rs) == Cardinality({k \in 1..Len(rs) : rs[k].success})

\* a mis-implementation: the run counts as a success once any batch succeeded
SummaryAnySucceeded(rs, fs, errs) ==
    LET batches_succeeded == CountSucceeded(rs)
        batches_failed == Len(rs) - batches_succeeded
    IN UploadSummary(batches_succeeded > 0, Len(fs), batches_succeeded,
                     batches_failed, errs)

\* the summary built after the upload pool has drained
FinalSummary(rs, fs, errs) ==
    LET batches_succeeded == CountSucceeded(rs)
        batches_failed == Len(rs) - batches_succeeded
        success == batches_failed = 0
    IN UploadSummary(success, Len(fs), batches_succeeded, batches_failed, errs)

\* errors.append(f"Batch {result.batch_id}: {result.error}")
BatchError(r) == <<"Batch", r.batch_id, r.error>>

\* a mis-implementation: the test on result.success is inverted
RecordErrorInverted(errs, r) ==
    IF r.success THEN Append(errs, BatchError(r)) ELSE errs

RecordError(errs, r) ==
    IF ~r.success THEN Append(errs, BatchError(r)) ELSE errs

\* a mis-implementation: an empty directory counts as nothing to do
EmptySummaryAsSuccess == UploadSummary(TRUE, 0, 0, 0, <<"No DICOM files found">>)

\* the summary returned when the scan finds no file
EmptySummary == UploadSummary(FALSE, 0, 0, 0, <<"No DICOM files found">>)

\* a mis-implementation: cleanup on the normal return only (no finally)
CleanupOnReturnOnly(td, how) ==
    IF how = "returned" THEN "removed" ELSE td

\* finally: shutil.rmtree(temp_dir, ignore_errors=True)
Finally(td, how) == "removed"

N == Len(batches)
BatchIds == 1..N

create_workers == Min(Max(1, archive_workers), N)
worker_count == Min(Max(1, upload_workers), N)

ArchiveRunning == {i \in DOMAIN archive_futures : archive_futures[i] = "running"}
UploadRunning == {i \in DOMAIN futures : futures[i].state = "running"}
Collected == {results[k].batch_id : k \in 1..Len(results)}

\* a mis-implementation: the upload stage starts with the first archive
FirstArchiveDone(done, ids) == done # {}

\* the as_completed loop over archive_futures has yielded every future
archiving_done(done, ids) == done = ids

\* a mis-implementation: the terminal event is reported before the event of
\* the last batch
TerminalFirst(evs, is_last, success) ==
    IF is_last
    THEN evs \o <<IF success THEN "complete" ELSE "error", "uploading">>
    ELSE Append(evs, "uploading")

\* the events of one turn of the as_completed loop over futures and, after
\* the last result, the terminal event
upload_events(evs, is_last, success) ==
    IF is_last
    THEN evs \o <<"uploading", IF success THEN "complete" ELSE "error">>
    ELSE Append(evs, "uploading")

UploadInit ==
    /\ source_is_dir \in BOOLEAN
    /\ source_files \in {1..n : n \in 0..MaxUploadFiles}
    /\ source_is_dir = FALSE => source_files = {}
    /\ num_batches \in 0..(MaxUploadFiles + 1)
    /\ archive_workers \in 0..MaxWorkers
    /\ upload_workers \in 0..MaxWorkers
    /\ archive_format \in ArchiveFormats
    /\ pc = "start"
    /\ files = <<>>
    /\ batches = <<>>
    /\ temp_dir = "none"
    /\ archive_futures = <<>>
    /\ completed = {}
    /\ futures = <<>>
    /\ conn = <<>>
    /\ http = <<>>
    /\ results = <<>>
    /\ errors = <<>>
    /\ exit = "none"
    /\ summary = NoSummary
    /\ events = <<>>

UploadIdle ==
    /\ source_is_dir = FALSE
    /\ source_files = {}
    /\ archive_workers = 0
    /\ upload_workers = 0
    /\ archive_format = "tar"
    /\ pc = "idle"
    /\ temp_dir = "none"
    /\ archive_futures = <<>>
    /\ completed = {}
    /\ futures = <<>>
    /\ conn = <<>>
    /\ http = <<>>
    /\ results = <<>>
    /\ errors = <<>>
    /\ exit = "none"
    /\ summary = NoSummary
    /\ events = <<>>

\* collect_dicom_files raises: the failure summary is returned at once
ScanFails ==
    /\ pc = "start"
    /\ collect_dicom_files(source_is_dir, source_files).raised
    /\ summary' = UploadSummary(FALSE, 0, 0, 0, <<"Failed to scan directory">>)
    /\ exit' = "returned"
    /\ pc' = "done"
    /\ UNCHANGED <<outsideUpload, events, splitVars, uploadInputs, temp_dir, archive_futures, completed,
                   futures, conn, http, results, errors>>

\* no files: the failure summary is returned at once
ScanEmpty ==
    /\ pc = "start"
    /\ ~collect_dicom_files(source_is_dir, source_files).raised
    /\ collect_dicom_files(source_is_dir, source_files).files = <<>>
    /\ summary' = EmptySummary
    /\ exit' = "returned"
    /\ pc' = "done"
    /\ UNCHANGED <<outsideUpload, events, splitVars, uploadInputs, temp_dir, archive_futures, completed,
                   futures, conn, http, results, errors>>

\* files found: split, make the temp directory, submit every create_archive
ScanAndSplit ==
    /\ pc = "start"
    /\ ~collect_dicom_files(source_is_dir, source_files).raised
    /\ collect_dicom_files(source_is_dir, source_files).files # <<>>
    /\ files' = collect_dicom_files(source_is_dir, source_files).files
    /\ batches' = split_into_batches(files', num_batches)
    /\ temp_dir' = "exists"
    /\ archive_futures' = [i \in 1..Len(batches') |-> "pending"]
    /\ events' = <<"archiving", "archiving">>
    /\ pc' = "archiving"
    /\ UNCHANGED <<outsideUpload, num_batches, splitPc, uploadInputs, completed, futures, conn,
                   http, results, errors, exit, summary>>

\* a pool thread takes the next queued create_archive
ArchiveStart(i) ==
    /\ pc \in {"archiving", "archive_raised"}
    /\ archive_futures[i] = "pending"
    /\ \A j \in 1..(i - 1) : archive_futures[j] # "pending"
    /\ Cardinality(ArchiveRunning) < create_workers
    /\ archive_futures' = [archive_futures EXCEPT ![i] = "running"]
    /\ UNCHANGED <<outsideUpload, events, splitVars, uploadInputs, pc, temp_dir, completed, futures, conn,
                   http, results, errors, exit, summary>>

\* create_archive returns or raises
ArchiveFinish(i) ==
    /\ pc \in {"archiving", "archive_raised"}
    /\ archive_futures[i] = "running"
    /\ \E io_ok \in BOOLEAN :
        archive_futures' =
            [archive_futures EXCEPT ![i] = create_archive(archive_format, io_ok)]
    /\ UNCHANGED <<outsideUpload, events, splitVars, uploadInputs, pc, temp_dir, completed, futures, conn,
                   http, results, errors, exit, summary>>

\* as_completed yields a finished archive future; future.result() returns the
\* size or re-raises the worker's exception.  After the last one the pool is
\* left and every upload_batch is submitted to the upload pool.
ArchiveCollect(i) ==
    /\ pc = "archiving"
    /\ i \notin completed
    /\ archive_futures[i] \in {"ok", "failed"}
    /\ completed' = completed \cup {i}
    /\ IF archive_futures[i] = "failed"
       THEN /\ pc' = "archive_raised"
            /\ UNCHANGED <<futures, conn, http, events>>
       ELSE IF archiving_done(completed', BatchIds)
       THEN /\ pc' = "uploading"
            /\ futures' = [b \in BatchIds |-> [state |-> "pending", result |-> NoResult]]
            /\ conn' = [b \in BatchIds |-> "None"]
            /\ http' = [b \in BatchIds |-> <<>>]
            /\ events' = events \o <<"archiving", "uploading">>
       ELSE /\ events' = Append(events, "archiving")
            /\ UNCHANGED <<pc, futures, conn, http>>
    /\ UNCHANGED <<outsideUpload, splitVars, uploadInputs, temp_dir, archive_futures, results,
                   errors, exit, summary>>

\* the archive exception leaves the pool's with-block once every submitted
\* create_archive has run (shutdown waits), then the finally clause, then the
\* caller
ArchiveRaise ==
    /\ pc = "archive_raised"
    /\ \A i \in BatchIds : archive_futures[i] \in {"ok", "failed"}
    /\ temp_dir' = Finally(temp_dir, "raised")
    /\ exit' = "raised"
    /\ pc' = "done"
    /\ UNCHANGED <<outsideUpload, events, splitVars, uploadInputs, archive_futures, completed, futures,
                   conn, http, results, errors, summary>>

\* a pool thread takes the next queued upload_batch: XNATSession.__enter__
\* opens the session; when open_session raises, __exit__ is not run and the
\* except clause of upload_batch builds the result
UploadOpen(i) ==
    /\ pc = "uploading"
    /\ futures[i].state = "pending"
    /\ \A j \in 1..(i - 1) : futures[j].state # "pending"
    /\ Cardinality(UploadRunning) < worker_count
    /\ \E outcome \in AuthOutcomes :
        LET o == open_session(outcome) IN
        /\ conn' = [conn EXCEPT ![i] = o.session]
        /\ http' = [http EXCEPT ![i] = @ \o o.sent]
        /\ futures' = [futures EXCEPT ![i] =
              IF o.raised
              THEN [state |-> "finished",
                    result |-> UploadResult(i, FALSE, Len(batches[i]), o.error)]
              ELSE [state |-> "running", result |-> NoResult]]
    /\ UNCHANGED <<outsideUpload, events, splitVars, uploadInputs, pc, temp_dir, archive_futures, completed,
                   results, errors, exit, summary>>

\* the body of the with-block: upload_archive, then __exit__ -> close_session,
\* then the UploadResult is returned
UploadSend(i) ==
    /\ pc = "uploading"
    /\ futures[i].state = "running"
    /\ \E outcome \in ImportOutcomes :
        LET u == upload_archive(conn[i], outcome) IN
        /\ http' = [http EXCEPT ![i] = @ \o u.sent \o close_session(conn[i])]
        /\ futures' = [futures EXCEPT ![i] =
              [state |-> "finished",
               result |-> UploadResult(i, u.success, Len(batches[i]), u.error)]]
    /\ UNCHANGED <<outsideUpload, events, splitVars, uploadInputs, pc, temp_dir, archive_futures, completed,
                   conn, results, errors, exit, summary>>

\* as_completed yields a finished upload future: the result and its error are
\* recorded; after the last one the summary is returned through the finally
UploadCollect(i) ==
    /\ pc = "uploading"
    /\ futures[i].state = "finished"
    /\ i \notin Collected
    /\ results' = Append(results, futures[i].result)
    /\ errors' = RecordError(errors, futures[i].result)
    /\ events' = upload_events(events, Len(results') = N,
                               FinalSummary(results', files, errors').success)
    /\ IF Len(results') = N
       THEN /\ summary' = FinalSummary(results', files, errors')
            /\ exit' = "returned"
            /\ temp_dir' = Finally(temp_dir, "returned")
            /\ pc' = "done"
       ELSE UNCHANGED <<summary, exit, temp_dir, pc>>
    /\ UNCHANGED <<outsideUpload, splitVars, uploadInputs, archive_futures, completed, futures,
                   conn, http>>

\* ------------------------------------------------------ retry_on_network_error
\* What fn() can do: return, or raise an exception of one of these classes.
\* HTTPError is what Response.raise_for_status raises in _do_upload and
\* _do_refresh; FileNotFoundError is what open(tmp_zip) raises.
FnExceptions ==
    {"requests.ConnectionError", "requests.Timeout", "requests.ChunkedEncodingError",
     "requests.HTTPError", "ConnectionResetError", "BrokenPipeError",
     "FileNotFoundError", "ValueError"}

\* The classes an exception is an instance of (Python builtins, and
\* requests.exceptions where RequestException derives from IOError = OSError).
Classes(exc) ==
    CASE exc = "requests.ConnectionError" ->
            {"requests.ConnectionError", "requests.RequestException", "OSError", "Exception"}
      [] exc = "requests.Timeout" ->
            {"requests.Timeout", "requests.RequestException", "OSError", "Exception"}
      [] exc = "requests.ChunkedEncodingError" ->
            {"requests.ChunkedEncodingError", "requests.RequestException", "OSError",
             "Exception"}
      [] exc = "requests.HTTPError" ->
            {"requests.HTTPError", "requests.RequestException", "OSError", "Exception"}
      [] exc = "ConnectionResetError" ->
            {"ConnectionResetError", "ConnectionError", "OSError", "Exception"}
      [] exc = "BrokenPipeError" ->
            {"BrokenPipeError", "ConnectionError", "OSError", "Exception"}
      [] exc = "FileNotFoundError" -> {"FileNotFoundError", "OSError", "Exception"}
      [] OTHER -> {exc, "Exception"}

\* the classes named by the except clause
CaughtClasses ==
    {"requests.ConnectionError", "requests.Timeout", "requests.ChunkedEncodingError",
     "ConnectionResetError", "BrokenPipeError", "OSError"}

\* the except clause matches
IsCaught(exc) == Classes(exc) \cap CaughtClasses # {}

NoException == [kind |-> "None", id |-> 0]

\* a mis-implementation: one iteration too many
RangeOneMore(m) == 0..(m + 1)

\* range(max_retries + 1)
AttemptRange(m) == 0..m

\* a mis-implementation: a successful call is not returned from the loop
StepKindNoReturn(kind) ==
    IF kind = "ok" THEN "retry"
    ELSE IF IsCaught(kind) THEN "retry"
    ELSE "propagate"

\* one iteration: return fn(), or the except clause, or the exception escapes
StepKind(kind) ==
    IF kind = "ok" THEN "return"
    ELSE IF IsCaught(kind) THEN "retry"
    ELSE "propagate"

RECURSIVE Pow(_, _)
Pow(b, e) == IF e = 0 THEN 1 ELSE b * Pow(b, e - 1)

\* a mis-implementation: the exponent is the attempt number itself
WaitTimeNoOffset(base, n) == Pow(base, n)

\* wait_time = backoff_base ** (attempt + 1)
wait_time(base, n) == Pow(base, n + 1)

RetryExhaustedError(attempts, last_error) ==
    [kind |-> "RetryExhaustedError", attempts |-> attempts, last_error |-> last_error]

RetryInit ==
    /\ max_retries \in -1..MaxRetries
    /\ backoff_base = 2
    /\ attempt = 0
    /\ last_exc = NoException
    /\ calls = <<>>
    /\ sleeps = <<>>
    /\ retryPc = "loop"
    /\ retryOut = NoException

RetryIdle ==
    /\ max_retries = 0
    /\ backoff_base = 2
    /\ attempt = 0
    /\ last_exc = NoException
    /\ calls = <<>>
    /\ sleeps = <<>>
    /\ retryPc = "idle"
    /\ retryOut = NoException

\* one iteration of the for loop: fn() is invoked; its value is returned, or
\* its exception is caught (and slept on unless this was the last attempt), or
\* its exception propagates
RetryAttempt ==
    /\ retryPc = "loop"
    /\ attempt \in AttemptRange(max_retries)
    /\ \E kind \in FnExceptions \cup {"ok"} :
        LET r == [kind |-> kind, id |-> Len(calls) + 1] IN
        /\ calls' = Append(calls, r)
        /\ CASE StepKind(kind) = "return" ->
                  /\ retryPc' = "returned"
                  /\ retryOut' = r
                  /\ UNCHANGED <<attempt, last_exc, sleeps>>
             [] StepKind(kind) = "propagate" ->
                  /\ retryPc' = "raised"
                  /\ retryOut' = r
                  /\ UNCHANGED <<attempt, last_exc, sleeps>>
             [] OTHER ->
                  /\ last_exc' = r
                  /\ sleeps' = IF attempt < max_retries
                               THEN Append(sleeps, wait_time(backoff_base, attempt))
                               ELSE sleeps
                  /\ attempt' = attempt + 1
                  /\ UNCHANGED <<retryPc, retryOut>>
    /\ UNCHANGED <<max_retries, backoff_base, outsideRetry>>

\* the loop is over: raise RetryExhaustedError(operation, max_retries + 1, last_exc)
RetryRaiseExhausted ==
    /\ retryPc = "loop"
    /\ attempt \notin AttemptRange(max_retries)
    /\ retryPc' = "raised"
    /\ retryOut' = RetryExhaustedError(max_retries + 1, last_exc)
    /\ UNCHANGED <<max_retries, backoff_base, attempt, last_exc, calls, sleeps,
                   outsideRetry>>

\* ------------------------------------------------------------ send_dicom_store
\* what the pre-flight association and C-ECHO meet
EchoOutcomes == {"rejected", "no_status", "status_fail", "status_ok"}

\* what reading and storing one file meets:
\*   unparsable   dcmread raises InvalidDicomError
\*   read_raise   dcmread raises another exception (not handled)
\*   store_error  send_c_store raises AttributeError or ValueError
\*   store_raise  send_c_store raises another exception (not handled)
\*   no_status    send_c_store returns an empty status
\*   status_fail  send_c_store returns a non-zero status
\*   status_ok    send_c_store returns status 0x0000
FileOutcomes ==
    {"unparsable", "read_raise", "store_error", "store_raise", "no_status",
     "status_fail", "status_ok"}

\* a mis-implementation: the status of the C-ECHO answer is not looked at
EchoIgnoresStatus(outcome) == outcome # "rejected"

\* c_echo: False unless the association is established and the status is 0x0000
c_echo(outcome) ==
    IF outcome = "rejected" THEN FALSE
    ELSE outcome = "status_ok"

DICOMStoreSummary(total_files, sent, nfailed, success) ==
    [total_files |-> total_files, sent |-> sent, failed |-> nfailed,
     success |-> success]

NoStoreSummary == DICOMStoreSummary(0, 0, 0, FALSE)

Task(state, assoc, pos, sent, nfailed) ==
    [state |-> state, assoc |-> assoc, pos |-> pos, sent |-> sent, failed |-> nfailed]

\* a mis-implementation: a rejected association reports the counters as they are
RejectedKeepsCounters(sent, nfailed, chunk) == <<sent, nfailed>>

\* return sent, len(files): every file of the batch counts as failed
RejectedResult(sent, nfailed, chunk) == <<sent, Len(chunk)>>

\* the body of the per-file loop: the new (sent, failed) counters, or the
\* exception leaves send_batch
store_file(t, outcome) ==
    CASE outcome = "unparsable" -> [t EXCEPT !.pos = @ + 1, !.failed = @ + 1]
      [] outcome = "read_raise" -> [t EXCEPT !.state = "raised"]
      [] outcome = "store_error" -> [t EXCEPT !.pos = @ + 1, !.failed = @ + 1]
      [] outcome = "store_raise" -> [t EXCEPT !.state = "raised"]
      [] outcome = "status_ok" -> [t EXCEPT !.pos = @ + 1, !.sent = @ + 1]
      [] OTHER -> [t EXCEPT !.pos = @ + 1, !.failed = @ + 1]

\* if cleanup: shutil.rmtree(work, ignore_errors=True)
StoreFinally(w, do_cleanup) == IF do_cleanup THEN "removed" ELSE w

StoreInit ==
    /\ dicom_root_is_dir \in BOOLEAN
    /\ dicom_root_files \in {1..n : n \in 0..MaxStoreFiles}
    /\ dicom_root_is_dir = FALSE => dicom_root_files = {}
    /\ store_batches \in 0..(MaxStoreFiles + 1)
    /\ cleanup \in BOOLEAN
    /\ echo \in EchoOutcomes
    /\ files = <<>>
    /\ chunks = <<>>
    /\ work = "none"
    /\ send = <<>>
    /\ consumed = {}
    /\ sent_total = 0
    /\ failed_total = 0
    /\ storePc = "start"
    /\ storeExit = "none"
    /\ storeSummary = NoStoreSummary
    /\ storeError = ""

StoreIdle ==
    /\ dicom_root_is_dir = FALSE
    /\ dicom_root_files = {}
    /\ store_batches = 0
    /\ cleanup = FALSE
    /\ echo = "status_ok"
    /\ chunks = <<>>
    /\ work = "none"
    /\ send = <<>>
    /\ consumed = {}
    /\ sent_total = 0
    /\ failed_total = 0
    /\ storePc = "idle"
    /\ storeExit = "none"
    /\ storeSummary = NoStoreSummary
    /\ storeError = ""

\* dicom_root is no directory: ValueError before the workspace is made
StoreNotDir ==
    /\ storePc = "start"
    /\ ~dicom_root_is_dir
    /\ storeExit' = "raised"
    /\ storeError' = "ValueError: dicom_root is not a directory"
    /\ storePc' = "done"
    /\ UNCHANGED <<outsideStore, files, storeInputs, chunks, work, send, consumed,
                   sent_total, failed_total, storeSummary>>

\* the workspace is made, the pre-flight C-ECHO fails: RuntimeError
StoreEchoFails ==
    /\ storePc = "start"
    /\ dicom_root_is_dir
    /\ ~c_echo(echo)
    /\ work' = StoreFinally("exists", cleanup)
    /\ storeExit' = "raised"
    /\ storeError' = "RuntimeError: C-ECHO failed - check host/port/AET settings"
    /\ storePc' = "done"
    /\ UNCHANGED <<outsideStore, files, storeInputs, chunks, send, consumed,
                   sent_total, failed_total, storeSummary>>

\* the C-ECHO succeeds, no file is found: RuntimeError
StoreNoFiles ==
    /\ storePc = "start"
    /\ dicom_root_is_dir
    /\ c_echo(echo)
    /\ collect_dicom_files(dicom_root_is_dir, dicom_root_files).files = <<>>
    /\ work' = StoreFinally("exists", cleanup)
    /\ storeExit' = "raised"
    /\ storeError' = "RuntimeError: No DICOM files found"
    /\ storePc' = "done"
    /\ UNCHANGED <<outsideStore, files, storeInputs, chunks, send, consumed,
                   sent_total, failed_total, storeSummary>>

\* files found: split and submit one send_batch per chunk (max_workers is the
\* number of chunks, so no task waits for a thread)
StoreSplit ==
    /\ storePc = "start"
    /\ dicom_root_is_dir
    /\ c_echo(echo)
    /\ collect_dicom_files(dicom_root_is_dir, dicom_root_files).files # <<>>
    /\ files' = collect_dicom_files(dicom_root_is_dir, dicom_root_files).files
    /\ chunks' = split_into_batches(files', store_batches)
    /\ work' = "exists"
    /\ send' = [i \in 1..Len(chunks') |-> Task("pending", "none", 0, 0, 0)]
    /\ storePc' = "sending"
    /\ UNCHANGED <<outsideStore, storeError, storeInputs, consumed, sent_total, failed_total,
                   storeExit, storeSummary>>

StoreRunning == storePc \in {"sending", "store_raised"}

\* send_batch requests its association; a rejected one ends the task
SendAssociate(i) ==
    /\ StoreRunning
    /\ send[i].state = "pending"
    /\ \E established \in BOOLEAN :
        send' = [send EXCEPT ![i] =
            IF established
            THEN Task("sending", "established", 0, 0, 0)
            ELSE LET r == RejectedResult(send[i].sent, send[i].failed, chunks[i])
                 IN Task("returned", "rejected", 0, r[1], r[2])]
    /\ UNCHANGED <<outsideStore, storeError, files, storeInputs, chunks, work, consumed,
                   sent_total, failed_total, storePc, storeExit, storeSummary>>

\* one iteration of the loop over the batch's files
SendFile(i) ==
    /\ StoreRunning
    /\ send[i].state = "sending"
    /\ send[i].pos < Len(chunks[i])
    /\ \E outcome \in FileOutcomes :
        send' = [send EXCEPT ![i] = store_file(send[i], outcome)]
    /\ UNCHANGED <<outsideStore, storeError, files, storeInputs, chunks, work, consumed,
                   sent_total, failed_total, storePc, storeExit, storeSummary>>

\* after the loop: assoc.release() and return sent, failed
SendRelease(i) ==
    /\ StoreRunning
    /\ send[i].state = "sending"
    /\ send[i].pos = Len(chunks[i])
    /\ send' = [send EXCEPT ![i].state = "returned", ![i].assoc = "released"]
    /\ UNCHANGED <<outsideStore, storeError, files, storeInputs, chunks, work, consumed,
                   sent_total, failed_total, storePc, storeExit, storeSummary>>

\* as_completed yields a finished send_batch future; future.result() returns
\* the counters or re-raises.  After the last one the summary is returned
\* through the finally clause.
StoreCollect(i) ==
    /\ storePc = "sending"
    /\ i \notin consumed
    /\ send[i].state \in {"returned", "raised"}
    /\ consumed' = consumed \cup {i}
    /\ IF send[i].state = "raised"
       THEN /\ storePc' = "store_raised"
            /\ UNCHANGED <<sent_total, failed_total, storeSummary, storeExit, work>>
       ELSE /\ sent_total' = sent_total + send[i].sent
            /\ failed_total' = failed_total + send[i].failed
            /\ IF consumed' = DOMAIN send
               THEN /\ storeSummary' = DICOMStoreSummary(Len(files), sent_total',
                                            failed_total', failed_total' = 0)
                    /\ storeExit' = "returned"
                    /\ work' = StoreFinally(work, cleanup)
                    /\ storePc' = "done"
               ELSE UNCHANGED <<storeSummary, storeExit, work, storePc>>
    /\ UNCHANGED <<outsideStore, storeError, files, storeInputs, chunks, send>>

\* the exception of a send_batch leaves the pool's with-block once every task
\* has ended, then the finally clause, then the caller
StoreRaise ==
    /\ storePc = "store_raised"
    /\ \A i \in DOMAIN send : send[i].state \in {"returned", "raised"}
    /\ work' = StoreFinally(work, cleanup)
    /\ storeExit' = "raised"
    /\ storeError' = "exception of send_batch"
    /\ storePc' = "done"
    /\ UNCHANGED <<outsideStore, files, storeInputs, chunks, send, consumed,
                   sent_total, failed_total, storeSummary>>

\* ------------------------------------------------- ScanService.delete_scans
\* scan IDs are strings, written as sequences of characters
Str1 == <<"1">>
Str2 == <<"2">>
Str3 == <<"3">>
Str5 == <<"5">>

\* the order in which the server lists the scans of a session
ScanOrder == <<Str1, Str2, Str3>>

\* the scan sets a session can hold: the first n scans of ScanOrder
SessionScans == {{ScanOrder[i] : i \in 1..n} : n \in 0..Len(ScanOrder)}

\* the raw IDs a caller can ask for: present or absent ones, one to strip,
\* one that is no XNAT identifier
RequestIds == {Str1, <<" ", "2">>, Str5, <<"/">>}

\* a list of requested IDs, or None (all scans)
SomeIds(ids) == [none |-> FALSE, ids |-> ids]
NoIds == [none |-> TRUE, ids |-> <<>>]

RECURSIVE SeqsUpTo(_, _)
SeqsUpTo(S, n) ==
    IF n = 0 THEN {<<>>}
    ELSE LET shorter == SeqsUpTo(S, n - 1)
         IN shorter \cup {Append(s, x) : s \in {t \in shorter : Len(t) = n - 1},
                                         x \in S}

\* str.strip(): leading and trailing whitespace removed
RECURSIVE LStrip(_)
LStrip(s) == IF s # <<>> /\ Head(s) = " " THEN LStrip(Tail(s)) ELSE s

RECURSIVE RStrip(_)
RStrip(s) ==
    IF s # <<>> /\ s[Len(s)] = " " THEN RStrip(SubSeq(s, 1, Len(s) - 1)) ELSE s

Strip(s) == LStrip(RStrip(s))

\* the characters XNAT_ID_PATTERN accepts, of those the model writes
IdChars == {"1", "2", "3", "5", "a", "_", "-"}

\* validate_xnat_identifier(value, "scan", max_length=32): the stripped
\* value, or InvalidIdentifierError
validate_scan_id(value) ==
    LET v == Strip(value)
    IN IF v = <<>> THEN [raised |-> TRUE, value |-> v]
       ELSE IF Len(v) > 32 THEN [raised |-> TRUE, value |-> v]
       ELSE IF \E i \in DOMAIN v : v[i] \notin IdChars
            THEN [raised |-> TRUE, value |-> v]
       ELSE [raised |-> FALSE, value |-> v]

\* list_scans: the IDs of the session's scans; both listing requests failing
\* leaves the list empty
list_scans(scans, outcome) ==
    IF outcome = "ok" THEN SelectSeq(ScanOrder, LAMBDA s : s \in scans)
    ELSE <<>>

\* the planning loop over scan_ids: present IDs to scans_to_delete, the
\* others to skipped; an invalid ID raises out of the loop
RECURSIVE PlanLoop(_, _, _, _)
PlanLoop(ids, available, to_delete, skip) ==
    IF ids = <<>>
    THEN [raised |-> FALSE, scans_to_delete |-> to_delete, skipped |-> skip]
    ELSE LET sid == validate_scan_id(Head(ids))
         IN IF sid.raised
            THEN [raised |-> TRUE, scans_to_delete |-> to_delete, skipped |-> skip]
            ELSE IF sid.value \in Range(available)
            THEN PlanLoop(Tail(ids), available, Append(to_delete, sid.value), skip)
            ELSE PlanLoop(Tail(ids), available, to_delete, Append(skip, sid.value))

\* lines 252-264: scan_ids None selects every available scan
Plan(ids, available) ==
    IF ids.none
    THEN [raised |-> FALSE, scans_to_delete |-> available, skipped |-> <<>>]
    ELSE PlanLoop(ids.ids, available, <<>>, <<>>)

\* `skipped if scan_ids else []`
SkippedOf(ids, skip) == IF ~ids.none /\ ids.ids # <<>> THEN skip ELSE <<>>

ScansResult(del, fail, skip, dry) ==
    [deleted |-> del, failed |-> fail, skipped |-> skip, dry_run |-> dry]

\* a mis-implementation: the dry run reports an empty plan
DryRunReportsNothing(ids, plan) ==
    ScansResult(<<>>, {}, SkippedOf(ids, plan.skipped), TRUE)

\* lines 281-287: the plan as the result of a dry run
DryRunResult(ids, plan) ==
    ScansResult(plan.scans_to_delete, {}, SkippedOf(ids, plan.skipped), TRUE)

NoScansResult == ScansResult(<<>>, {}, <<>>, FALSE)

\* a contextvar without a value
None == 0

\* get_correlation_id: the id of the calling thread's context, a fresh one
\* set there when it has none (gen counts the ids generated so far)
get_correlation_id(cid, gen) ==
    IF cid = None THEN [cid |-> gen + 1, generated |-> gen + 1]
    ELSE [cid |-> cid, generated |-> gen]

\* the context a new thread of the pool starts with: a copy of its creator's
\* only when the interpreter runs with thread_inherit_context
thread_context(inherit, parent) == IF inherit THEN parent ELSE None

\* AuditLogger.log_operation: the record written
AuditRecord(operation, success, cid) ==
    [operation |-> operation, success |-> success, correlation_id |-> cid]

\* failed[sid] = error, the dict kept as a set of (key, value) pairs
DictSet(d, key, value) == {p \in d : p[1] # key} \cup {<<key, value>>}

DictKeys(d) == {p[1] : p \in d}

\* the outcomes of scan(sid).delete(delete_files=True)
DeleteOutcomes == {"ok", "error", "error_no_message"}

\* _delete_one: (sid, None) or (sid, str(e))
delete_one(sid, outcome) ==
    CASE outcome = "ok" -> <<sid, "None">>
      [] outcome = "error" -> <<sid, "error">>
      [] OTHER -> <<sid, "">>

\* `if error:` a non-empty message
Truthy(error) == error \notin {"None", ""}

Job(state, thread, cid, error) ==
    [state |-> state, thread |-> thread, cid |-> cid, error |-> error]

\* the threads: 0 is the calling thread, 1.. are the pool's workers
MainThread == 0

ScansInit ==
    /\ server_scans \in SessionScans
    /\ list_outcome \in {"ok", "empty", "raise"}
    /\ scan_ids \in {NoIds} \cup {SomeIds(s) : s \in SeqsUpTo(RequestIds, MaxRequested)}
    /\ dry_run \in BOOLEAN
    /\ parallel \in BOOLEAN
    /\ max_workers \in 1..MaxScanWorkers
    /\ inherit_context \in BOOLEAN
    /\ ctx \in {[t \in 0..MaxScanWorkers |-> IF t = MainThread THEN c ELSE None] :
                    c \in {None, 1}}
    /\ generated = 1
    /\ available_scans = <<>>
    /\ scans_to_delete = <<>>
    /\ skipped = <<>>
    /\ deleted = <<>>
    /\ failed = {}
    /\ jobs = <<>>
    /\ yielded = 0
    /\ audit = <<>>
    /\ scansPc = "start"
    /\ scansExit = "none"
    /\ scansResult = NoScansResult
    /\ scansError = ""

ScansIdle ==
    /\ server_scans = {}
    /\ list_outcome = "ok"
    /\ scan_ids = NoIds
    /\ dry_run = FALSE
    /\ parallel = FALSE
    /\ max_workers = 1
    /\ inherit_context = FALSE
    /\ ctx = [t \in 0..MaxScanWorkers |-> None]
    /\ generated = 1
    /\ available_scans = <<>>
    /\ scans_to_delete = <<>>
    /\ skipped = <<>>
    /\ deleted = <<>>
    /\ failed = {}
    /\ jobs = <<>>
    /\ yielded = 0
    /\ audit = <<>>
    /\ scansPc = "idle"
    /\ scansExit = "none"
    /\ scansResult = NoScansResult
    /\ scansError = ""

\* LogContext(...) is built and entered on the calling thread: its
\* correlation id stays set there after __exit__ resets the token
EnterLogContext ==
    LET g == get_correlation_id(ctx[MainThread], generated)
    IN /\ ctx' = [ctx EXCEPT ![MainThread] = g.cid]
       /\ generated' = g.generated

\* the connection cannot be made: list_scans raises out of delete_scans
ScansListRaises ==
    /\ scansPc = "start"
    /\ list_outcome = "raise"
    /\ EnterLogContext
    /\ scansExit' = "raised"
    /\ scansError' = "exception of list_scans"
    /\ scansPc' = "done"
    /\ UNCHANGED <<outsideScans, scansInputs, available_scans, scans_to_delete,
                   skipped, deleted, failed, jobs, yielded, audit, scansResult>>

\* lines 247-249: no scans found
ScansNoScans ==
    /\ scansPc = "start"
    /\ list_outcome # "raise"
    /\ list_scans(server_scans, list_outcome) = <<>>
    /\ EnterLogContext
    /\ available_scans' = <<>>
    /\ scansResult' = ScansResult(<<>>, {}, <<>>, dry_run)
    /\ scansExit' = "returned"
    /\ scansPc' = "done"
    /\ UNCHANGED <<outsideScans, scansInputs, scans_to_delete, skipped, deleted,
                   failed, jobs, yielded, audit, scansError>>

\* validate_scan_id raises InvalidIdentifierError inside the planning loop
ScansPlanRaises ==
    /\ scansPc = "start"
    /\ list_outcome # "raise"
    /\ list_scans(server_scans, list_outcome) # <<>>
    /\ LET available == list_scans(server_scans, list_outcome)
           plan == Plan(scan_ids, available)
       IN /\ plan.raised
          /\ available_scans' = available
          /\ scans_to_delete' = plan.scans_to_delete
          /\ skipped' = plan.skipped
    /\ EnterLogContext
    /\ scansExit' = "raised"
    /\ scansError' = "InvalidIdentifierError"
    /\ scansPc' = "done"
    /\ UNCHANGED <<outsideScans, scansInputs, deleted, failed, jobs, yielded, audit,
                   scansResult>>

\* lines 266-272: nothing to delete
ScansNothingToDelete ==
    /\ scansPc = "start"
    /\ list_outcome # "raise"
    /\ list_scans(server_scans, list_outcome) # <<>>
    /\ LET available == list_scans(server_scans, list_outcome)
           plan == Plan(scan_ids, available)
       IN /\ ~plan.raised
          /\ plan.scans_to_delete = <<>>
          /\ available_scans' = available
          /\ scans_to_delete' = plan.scans_to_delete
          /\ skipped' = plan.skipped
          /\ scansResult' = ScansResult(<<>>, {}, SkippedOf(scan_ids, plan.skipped),
                                        dry_run)
    /\ EnterLogContext
    /\ scansExit' = "returned"
    /\ scansPc' = "done"
    /\ UNCHANGED <<outsideScans, scansInputs, deleted, failed, jobs, yielded, audit,
                   scansError>>

\* lines 281-287: the dry run returns the plan
ScansDryRun ==
    /\ scansPc = "start"
    /\ list_outcome # "raise"
    /\ list_scans(server_scans, list_outcome) # <<>>
    /\ dry_run
    /\ LET available == list_scans(server_scans, list_outcome)
           plan == Plan(scan_ids, available)
       IN /\ ~plan.raised
          /\ plan.scans_to_delete # <<>>
          /\ available_scans' = available
          /\ scans_to_delete' = plan.scans_to_delete
          /\ skipped' = plan.skipped
          /\ scansResult' = DryRunResult(scan_ids, plan)
    /\ EnterLogContext
    /\ scansExit' = "returned"
    /\ scansPc' = "done"
    /\ UNCHANGED <<outsideScans, scansInputs, deleted, failed, jobs, yielded, audit,
                   scansError>>

\* min(max_workers, len(scans_to_delete)) threads when the pool is used
DeleteWorkers(to_delete) ==
    IF parallel /\ Len(to_delete) > 1 THEN 1..Min(max_workers, Len(to_delete))
    ELSE {}

\* lines 289-311: the deletion starts; with the pool, ex.map submits every
\* scan and the workers are created by the calling thread
ScansStartDeletion ==
    /\ scansPc = "start"
    /\ list_outcome # "raise"
    /\ list_scans(server_scans, list_outcome) # <<>>
    /\ ~dry_run
    /\ LET available == list_scans(server_scans, list_outcome)
           plan == Plan(scan_ids, available)
           g == get_correlation_id(ctx[MainThread], generated)
       IN /\ ~plan.raised
          /\ plan.scans_to_delete # <<>>
          /\ available_scans' = available
          /\ scans_to_delete' = plan.scans_to_delete
          /\ skipped' = plan.skipped
          /\ jobs' = [k \in DOMAIN plan.scans_to_delete |->
                         Job("queued", MainThread, None, "None")]
          /\ generated' = g.generated
          /\ ctx' = [t \in DOMAIN ctx |->
                       IF t = MainThread THEN g.cid
                       ELSE IF t \in DeleteWorkers(plan.scans_to_delete)
                       THEN thread_context(inherit_context, g.cid)
                       ELSE ctx[t]]
    /\ scansPc' = "deleting"
    /\ UNCHANGED <<outsideScans, scansInputs, deleted, failed, yielded, audit,
                   scansExit, scansResult, scansError>>

\* a worker of the pool takes the next queued scan
DeleteStart(k, w) ==
    /\ scansPc = "deleting"
    /\ w \in DeleteWorkers(scans_to_delete)
    /\ k \in DOMAIN jobs
    /\ jobs[k].state = "queued"
    /\ \A j \in 1..(k - 1) : jobs[j].state # "queued"
    /\ \A j \in DOMAIN jobs : jobs[j].state = "running" => jobs[j].thread # w
    /\ jobs' = [jobs EXCEPT ![k] = Job("running", w, None, "None")]
    /\ UNCHANGED <<outsideScans, scansInputs, ctx, generated, available_scans,
                   scans_to_delete, skipped, deleted, failed, yielded, audit,
                   scansPc, scansExit, scansResult, scansError>>

\* _delete_one on a worker: the DELETE, the log record stamped with the
\* worker's correlation id, the result
DeleteFinish(k, outcome) ==
    /\ scansPc = "deleting"
    /\ k \in DOMAIN jobs
    /\ jobs[k].state = "running"
    /\ LET g == get_correlation_id(ctx[jobs[k].thread], generated)
       IN /\ ctx' = [ctx EXCEPT ![jobs[k].thread] = g.cid]
          /\ generated' = g.generated
          /\ jobs' = [jobs EXCEPT ![k] = Job("done", jobs[k].thread, g.cid,
                                             delete_one(scans_to_delete[k], outcome)[2])]
    /\ server_scans' = IF outcome = "ok" THEN server_scans \ {scans_to_delete[k]}
                       ELSE server_scans
    /\ UNCHANGED <<outsideScans, list_outcome, scan_ids, dry_run, parallel,
                   max_workers, inherit_context, available_scans, scans_to_delete,
                   skipped, deleted, failed, yielded, audit, scansPc, scansExit,
                   scansResult, scansError>>

\* the calling thread takes the next result of ex.map, in submission order
DeleteYield ==
    /\ scansPc = "deleting"
    /\ DeleteWorkers(scans_to_delete) # {}
    /\ yielded < Len(jobs)
    /\ jobs[yielded + 1].state = "done"
    /\ LET sid == scans_to_delete[yielded + 1]
           error == jobs[yielded + 1].error
       IN IF Truthy(error)
          THEN failed' = DictSet(failed, sid, error) /\ UNCHANGED deleted
          ELSE deleted' = Append(deleted, sid) /\ UNCHANGED failed
    /\ yielded' = yielded + 1
    /\ UNCHANGED <<outsideScans, scansInputs, ctx, generated, available_scans,
                   scans_to_delete, skipped, jobs, audit, scansPc, scansExit,
                   scansResult, scansError>>

\* lines 313-318: without the pool the calling thread deletes one scan
DeleteSerial(outcome) ==
    /\ scansPc = "deleting"
    /\ DeleteWorkers(scans_to_delete) = {}
    /\ yielded < Len(jobs)
    /\ LET k == yielded + 1
           sid == scans_to_delete[k]
           error == delete_one(sid, outcome)[2]
       IN /\ jobs' = [jobs EXCEPT ![k] = Job("done", MainThread, ctx[MainThread],
                                             error)]
          /\ server_scans' = IF outcome = "ok" THEN server_scans \ {sid}
                             ELSE server_scans
          /\ IF Truthy(error)
             THEN failed' = DictSet(failed, sid, error) /\ UNCHANGED deleted
             ELSE deleted' = Append(deleted, sid) /\ UNCHANGED failed
    /\ yielded' = yielded + 1
    /\ UNCHANGED <<outsideScans, list_outcome, scan_ids, dry_run, parallel,
                   max_workers, inherit_context, ctx, generated, available_scans,
                   scans_to_delete, skipped, audit, scansPc, scansExit, scansResult,
                   scansError>>

\* lines 320-345: every result taken; the audit record, then the result
ScansComplete ==
    /\ scansPc = "deleting"
    /\ yielded = Len(jobs)
    /\ audit' = Append(audit, AuditRecord("delete_scans", failed = {},
                                          ctx[MainThread]))
    /\ scansResult' = ScansResult(deleted, failed, SkippedOf(scan_ids, skipped),
                                  FALSE)
    /\ scansExit' = "returned"
    /\ scansPc' = "done"
    /\ UNCHANGED <<outsideScans, scansInputs, ctx, generated, available_scans,
                   scans_to_delete, skipped, deleted, failed, jobs, yielded,
                   scansError>>

\* ----------------------------------------- XNATConnection and XNATSession
\* which object the calls are made on
ConnKinds == {"XNATConnection", "XNATSession"}

Thread(tpc) == [pc |-> tpc]

ConnThreads == 1..MaxConnThreads

ConnInit ==
    /\ conn_kind \in ConnKinds
    /\ interface = None
    /\ created = 0
    /\ epoch_created = 0
    /\ live = {}
    /\ released = FALSE
    /\ closes = 0
    /\ started = 0
    /\ threads = [t \in ConnThreads |-> Thread("idle")]
    /\ requests = {}
    /\ xs_session = "None"
    /\ xs_http = <<>>
    /\ xs_calls = 0

ConnIdle ==
    /\ conn_kind = "none"
    /\ interface = None
    /\ created = 0
    /\ epoch_created = 0
    /\ live = {}
    /\ released = FALSE
    /\ closes = 0
    /\ started = 0
    /\ threads = [t \in ConnThreads |-> Thread("idle")]
    /\ requests = {}
    /\ xs_session = "None"
    /\ xs_http = <<>>
    /\ xs_calls = 0

\* line 106: `if self._interface is None`
interface_check(iface) == IF iface = None THEN "create" ELSE "send"

\* a task calls conn.get (or conn.interface): the test of line 106
InterfaceCheck(t) ==
    /\ conn_kind = "XNATConnection"
    /\ threads[t].pc = "idle"
    /\ started < MaxRequests
    /\ started' = started + 1
    /\ threads' = [threads EXCEPT ![t] = Thread(interface_check(interface))]
    /\ UNCHANGED <<outsideConn, conn_kind, interface, created, epoch_created, live,
                   released, closes, requests, xs_session, xs_http, xs_calls>>

\* lines 107-112: the task that saw None builds an Interface and stores it
InterfaceCreate(t) ==
    /\ conn_kind = "XNATConnection"
    /\ threads[t].pc = "create"
    /\ interface' = created + 1
    /\ created' = created + 1
    /\ epoch_created' = epoch_created + 1
    /\ live' = live \cup {created + 1}
    /\ threads' = [threads EXCEPT ![t] = Thread("send")]
    /\ UNCHANGED <<outsideConn, conn_kind, released, closes, started, requests,
                   xs_session, xs_http, xs_calls>>

\* line 113 and the request: `self._interface` is read again and the request
\* goes through it (None has no get: AttributeError)
InterfaceSend(t) ==
    /\ conn_kind = "XNATConnection"
    /\ threads[t].pc = "send"
    /\ requests' = IF interface = None THEN requests
                 ELSE requests \cup {[interface |-> interface, after_release |-> released]}
    /\ threads' = [threads EXCEPT ![t] = Thread("idle")]
    /\ UNCHANGED <<outsideConn, conn_kind, interface, created, epoch_created, live,
                   released, closes, started, xs_session, xs_http, xs_calls>>

\* XNATConnection.close: disconnect the stored interface, forget it
ConnClose ==
    /\ conn_kind = "XNATConnection"
    /\ closes < MaxCloses
    /\ closes' = closes + 1
    /\ IF interface # None
       THEN /\ live' = live \ {interface}
            /\ released' = TRUE
            /\ interface' = None
            /\ epoch_created' = 0
       ELSE UNCHANGED <<live, released, interface, epoch_created>>
    /\ UNCHANGED <<outsideConn, conn_kind, created, started, threads, requests,
                   xs_session, xs_http, xs_calls>>

\* XNATSession.open_session
SessionOpen(outcome) ==
    /\ conn_kind = "XNATSession"
    /\ xs_calls < MaxSessionCalls
    /\ xs_calls' = xs_calls + 1
    /\ xs_session' = open_session(outcome).session
    /\ xs_http' = xs_http \o open_session(outcome).sent
    /\ UNCHANGED <<outsideConn, conn_kind, interface, created, epoch_created, live,
                   released, closes, started, threads, requests>>

\* XNATSession.upload_archive
SessionUpload(outcome) ==
    /\ conn_kind = "XNATSession"
    /\ xs_calls < MaxSessionCalls
    /\ xs_calls' = xs_calls + 1
    /\ xs_http' = xs_http \o upload_archive(xs_session, outcome).sent
    /\ UNCHANGED <<outsideConn, conn_kind, interface, created, epoch_created, live,
                   released, closes, started, threads, requests, xs_session>>

\* XNATSession.close_session: self.session is left as it is
SessionClose ==
    /\ conn_kind = "XNATSession"
    /\ xs_calls < MaxSessionCalls
    /\ xs_calls' = xs_calls + 1
    /\ xs_http' = xs_http \o close_session(xs_session)
    /\ UNCHANGED <<outsideConn, conn_kind, interface, created, epoch_created, live,
                   released, closes, started, threads, requests, xs_session>>

\* ------------------------------- DownloadService: download and extraction
\* resource labels, as sequences of characters
LabelAB == <<"a", " ", "b">>
LabelA_B == <<"a", "_", "b">>
LabelC == <<"c">>

\* the resource labels a session can have
SessionLabels == {<<>>, <<LabelAB>>, <<LabelAB, LabelA_B>>, <<LabelAB, LabelC>>}

\* a file of the session directory: scans.zip, resources_<label>.zip,
\* assessor_resources.zip or recon_resources.zip
ZipName(kind, label) == [kind |-> kind, label |-> label]

\* label.replace("/", "_").replace(" ", "_")
filename_safe(label) ==
    [i \in DOMAIN label |-> IF label[i] \in {"/", " "} THEN "_" ELSE label[i]]

\* sorted(session_dir.glob("*.zip")): the order of the names
CharOrder == <<" ", "/", "_", "a", "b", "c">>

CharRank(c) == CHOOSE i \in DOMAIN CharOrder : CharOrder[i] = c

RECURSIVE StrLess(_, _)
StrLess(s, t) ==
    IF t = <<>> THEN FALSE
    ELSE IF s = <<>> THEN TRUE
    ELSE IF Head(s) = Head(t) THEN StrLess(Tail(s), Tail(t))
    ELSE CharRank(Head(s)) < CharRank(Head(t))

KindRank(kind) ==
    CASE kind = "assessor_resources.zip" -> 1
      [] kind = "recon_resources.zip" -> 2
      [] kind = "resources_" -> 3
      [] OTHER -> 4

NameLess(a, b) ==
    \/ KindRank(a.kind) < KindRank(b.kind)
    \/ a.kind = b.kind /\ StrLess(a.label, b.label)

RECURSIVE SortNames(_)
SortNames(S) ==
    IF S = {} THEN <<>>
    ELSE LET first == CHOOSE a \in S : \A b \in S \ {a} : NameLess(a, b)
         IN <<first>> \o SortNames(S \ {first})

\* lines 325-335: the directory a zip is extracted into
target_dir(name) ==
    CASE name.kind = "scans.zip" -> [dir |-> "scans", label |-> <<>>]
      [] name.kind = "resources_" -> [dir |-> "resources", label |-> name.label]
      [] name.kind = "assessor_resources.zip" -> [dir |-> "assessors", label |-> <<>>]
      [] OTHER -> [dir |-> "reconstructions", label |-> <<>>]

\* what one streamed download can meet
StreamOutcomes == {"ok", "http_error", "broken_stream"}

\* _download_stream: an error answer raises before the file is opened; a
\* stream that breaks leaves the part written so far
download_stream(files_on_disk, name, outcome) ==
    IF outcome = "http_error" THEN files_on_disk
    ELSE {f \in files_on_disk : f.name # name}
            \cup {[name |-> name, complete |-> outcome = "ok"]}

\* the loop of download_session_resources_zip over the first n labels, the
\* n-th download meeting `how`
RECURSIVE download_labels(_, _, _, _)
download_labels(files_on_disk, ls, n, how) ==
    IF n = 0 \/ ls = <<>> THEN files_on_disk
    ELSE download_labels(
             download_stream(files_on_disk,
                             ZipName("resources_", filename_safe(Head(ls))),
                             IF n = 1 THEN how ELSE "ok"),
             Tail(ls), n - 1, how)

TaskOutcome(fail_at, how) == [fail_at |-> fail_at, how |-> how]

\* what a download task can meet: no failure, or a failure of its n-th
\* download; the resources task can also fail to list the labels
TaskOutcomes(kind, ls) ==
    {TaskOutcome(0, "ok")}
        \cup {TaskOutcome(n, how) :
                n \in 1..(IF kind = "resources" THEN Len(ls) ELSE 1),
                how \in StreamOutcomes \ {"ok"}}
        \cup (IF kind = "resources" THEN {TaskOutcome(0, "list_error")} ELSE {})

\* the files a task leaves in the session directory
task_files(files_on_disk, kind, ls, o) ==
    CASE kind = "scans" ->
            download_stream(files_on_disk, ZipName("scans.zip", <<>>), o.how)
      [] kind = "resources" ->
            IF o.how = "list_error" THEN files_on_disk
            ELSE download_labels(files_on_disk, ls,
                                 IF o.fail_at = 0 THEN Len(ls) ELSE o.fail_at, o.how)
      [] kind = "assessors" ->
            download_stream(files_on_disk, ZipName("assessor_resources.zip", <<>>),
                            o.how)
      [] OTHER ->
            download_stream(files_on_disk, ZipName("recon_resources.zip", <<>>), o.how)

\* a mis-implementation: the failure of any download leaves its task
AnyFailureRaises(kind, o) == o.how # "ok"

\* whether the task raises: download_assessor_or_recon_resources_zip catches
\* every Exception and returns None
task_raises(kind, o) == kind \in {"scans", "resources"} /\ o.how # "ok"

\* lines 262-279
build_tasks(assessors, recons) ==
    <<"scans", "resources">>
        \o (IF assessors THEN <<"assessors">> ELSE <<>>)
        \o (IF recons THEN <<"reconstructions">> ELSE <<>>)

\* the names of the entries a downloaded zip can hold, as path components
\* ("" first: an absolute path)
ZipEntryNames == {<<"f.dcm">>, <<"..", "evil">>, <<"", "etc", "passwd">>, <<"..">>}

\* the entry names a path-traversal check has to refuse
Traversal(name) == "" \in Range(name) \/ ".." \in Range(name)

\* ZipFile._extract_member: the components "", "." and ".." are dropped from
\* the name
arcname(name) == SelectSeq(name, LAMBDA c : c \notin {"", ".", ".."})

\* ZipFile.extractall: the members in order; a member whose name is empty
\* after the clean-up raises and ends the extraction
RECURSIVE extractall(_, _, _)
extractall(entries, target, acc) ==
    IF entries = <<>> THEN [raised |-> FALSE, written |-> acc]
    ELSE IF arcname(Head(entries)) = <<>> THEN [raised |-> TRUE, written |-> acc]
    ELSE extractall(Tail(entries), target,
                    acc \cup {[target |-> target, path |-> arcname(Head(entries)),
                               entry |-> Head(entries)]})

\* how far below (>= 0) or above (< 0) its directory a relative path ends
RECURSIVE Depth(_, _)
Depth(path, d) ==
    IF path = <<>> \/ d < 0 THEN d
    ELSE Depth(Tail(path), IF Head(path) = ".." THEN d - 1 ELSE d + 1)

\* the path names a place outside the directory it is joined to
Escapes(path) == path # <<>> /\ (Head(path) = "" \/ Depth(path, 0) < 0)

\* a task of the list: its state and what its download met ("none" before
\* it has run)
DlTask(kind, state) == [kind |-> kind, state |-> state, how |-> "none"]

DownloadInit ==
    /\ include_assessors \in BOOLEAN
    /\ include_recons \in BOOLEAN
    /\ dl_parallel \in BOOLEAN
    /\ dl_workers \in 1..MaxDlWorkers
    /\ labels \in SessionLabels
    /\ unzip \in BOOLEAN
    /\ tasks = <<>>
    /\ dl_yielded = 0
    /\ disk = {}
    /\ zip_entries = <<>>
    /\ zips = <<>>
    /\ written = {}
    /\ dl_audit = <<>>
    /\ dlPc = "start"
    /\ dlExit = "none"
    /\ dlError = ""

DownloadIdle ==
    /\ include_assessors = FALSE
    /\ include_recons = FALSE
    /\ dl_parallel = FALSE
    /\ dl_workers = 1
    /\ labels = <<>>
    /\ unzip = FALSE
    /\ tasks = <<>>
    /\ dl_yielded = 0
    /\ disk = {}
    /\ zip_entries = <<>>
    /\ zips = <<>>
    /\ written = {}
    /\ dl_audit = <<>>
    /\ dlPc = "idle"
    /\ dlExit = "none"
    /\ dlError = ""

\* lines 282-283: the pool is used for more than one task
DlPool == dl_parallel /\ Len(tasks) > 1

\* lines 257-284: the directories are made, the task list is built and, with
\* the pool, every task is submitted
DlStart ==
    /\ dlPc = "start"
    /\ tasks' = [k \in DOMAIN build_tasks(include_assessors, include_recons) |->
                    DlTask(build_tasks(include_assessors, include_recons)[k],
                           "queued")]
    /\ dlPc' = "downloading"
    /\ UNCHANGED <<outsideDownload, dlInputs, dl_yielded, disk, zip_entries, zips,
                   written, dl_audit, dlExit, dlError>>

\* a worker of the pool takes the next queued task
TaskStart(k) ==
    /\ dlPc \in {"downloading", "raising"}
    /\ DlPool
    /\ k \in DOMAIN tasks
    /\ tasks[k].state = "queued"
    /\ \A j \in 1..(k - 1) : tasks[j].state # "queued"
    /\ Cardinality({j \in DOMAIN tasks : tasks[j].state = "running"})
          < Min(dl_workers, Len(tasks))
    /\ tasks' = [tasks EXCEPT ![k].state = "running"]
    /\ UNCHANGED <<outsideDownload, dlInputs, dl_yielded, disk, zip_entries, zips,
                   written, dl_audit, dlPc, dlExit, dlError>>

\* the task ends on its worker
TaskFinish(k, o) ==
    /\ dlPc \in {"downloading", "raising"}
    /\ k \in DOMAIN tasks
    /\ tasks[k].state = "running"
    /\ o \in TaskOutcomes(tasks[k].kind, labels)
    /\ disk' = task_files(disk, tasks[k].kind, labels, o)
    /\ tasks' = [tasks EXCEPT ![k].state =
                    IF task_raises(tasks[k].kind, o) THEN "raised" ELSE "done",
                                ![k].how = o.how]
    /\ UNCHANGED <<outsideDownload, dlInputs, dl_yielded, zip_entries, zips, written,
                   dl_audit, dlPc, dlExit, dlError>>

\* list(ex.map(...)): the calling thread takes the next result in order
DlYield ==
    /\ dlPc = "downloading"
    /\ DlPool
    /\ dl_yielded < Len(tasks)
    /\ tasks[dl_yielded + 1].state = "done"
    /\ dl_yielded' = dl_yielded + 1
    /\ UNCHANGED <<outsideDownload, dlInputs, tasks, disk, zip_entries, zips, written,
                   dl_audit, dlPc, dlExit, dlError>>

\* the next result is an exception: it leaves list(), the map generator
\* cancels the tasks not started yet
DlCancel ==
    /\ dlPc = "downloading"
    /\ DlPool
    /\ dl_yielded < Len(tasks)
    /\ tasks[dl_yielded + 1].state = "raised"
    /\ tasks' = [k \in DOMAIN tasks |->
                    IF tasks[k].state = "queued" THEN DlTask(tasks[k].kind, "cancelled")
                    ELSE tasks[k]]
    /\ dlPc' = "raising"
    /\ UNCHANGED <<outsideDownload, dlInputs, dl_yielded, disk, zip_entries, zips,
                   written, dl_audit, dlExit, dlError>>

\* the pool's with-block waits for the running tasks, then the exception
\* leaves download_session through the LogContext
DlRaise ==
    /\ dlPc = "raising"
    /\ \A k \in DOMAIN tasks : tasks[k].state # "running"
    /\ dlExit' = "raised"
    /\ dlError' = "exception of a download task"
    /\ dlPc' = "done"
    /\ UNCHANGED <<outsideDownload, dlInputs, tasks, dl_yielded, disk, zip_entries,
                   zips, written, dl_audit>>

\* lines 286-287: without the pool the calling thread runs the next task; its
\* exception leaves download_session
DlSerial(o) ==
    /\ dlPc = "downloading"
    /\ ~DlPool
    /\ dl_yielded < Len(tasks)
    /\ o \in TaskOutcomes(tasks[dl_yielded + 1].kind, labels)
    /\ disk' = task_files(disk, tasks[dl_yielded + 1].kind, labels, o)
    /\ IF task_raises(tasks[dl_yielded + 1].kind, o)
       THEN /\ tasks' = [tasks EXCEPT ![dl_yielded + 1].state = "raised",
                                       ![dl_yielded + 1].how = o.how]
            /\ dlExit' = "raised"
            /\ dlError' = "exception of a download task"
            /\ dlPc' = "done"
            /\ UNCHANGED dl_yielded
       ELSE /\ tasks' = [tasks EXCEPT ![dl_yielded + 1].state = "done",
                                       ![dl_yielded + 1].how = o.how]
            /\ dl_yielded' = dl_yielded + 1
            /\ UNCHANGED <<dlExit, dlError, dlPc>>
    /\ UNCHANGED <<outsideDownload, dlInputs, zip_entries, zips, written, dl_audit>>

\* lines 289-300: every task gave its result: the audit record (its correlation
\* id is not followed here), the return;
\* with --unzip handle_download_session goes on to the extraction of the
\* zips found in the session directory
DlComplete(entries) ==
    /\ dlPc = "downloading"
    /\ dl_yielded = Len(tasks)
    /\ dl_audit' = Append(dl_audit, AuditRecord("download_session", TRUE, None))
    /\ IF unzip
       THEN /\ zips' = SortNames({f.name : f \in disk})
            /\ zip_entries' = entries
            /\ dlPc' = "extracting"
            /\ UNCHANGED dlExit
       ELSE /\ entries = <<>>
            /\ dlExit' = "returned"
            /\ dlPc' = "done"
            /\ UNCHANGED <<zips, zip_entries>>
    /\ UNCHANGED <<outsideDownload, dlInputs, tasks, dl_yielded, disk, written,
                   dlError>>

\* lines 321-343: the next zip of the sorted listing is extracted into its
\* directory; a file that is no complete zip raises BadZipFile
ExtractZip ==
    /\ dlPc = "extracting"
    /\ zips # <<>>
    /\ LET name == Head(zips)
           whole == \E f \in disk : f.name = name /\ f.complete
           x == extractall(zip_entries, target_dir(name), written)
       IN IF ~whole
          THEN /\ dlExit' = "raised"
               /\ dlError' = "BadZipFile"
               /\ dlPc' = "done"
               /\ UNCHANGED <<written, zips>>
          ELSE /\ written' = x.written
               /\ IF x.raised
                  THEN /\ dlExit' = "raised"
                       /\ dlError' = "exception of extractall"
                       /\ dlPc' = "done"
                       /\ UNCHANGED zips
                  ELSE /\ zips' = Tail(zips)
                       /\ UNCHANGED <<dlExit, dlError, dlPc>>
    /\ UNCHANGED <<outsideDownload, dlInputs, tasks, dl_yielded, disk, zip_entries,
                   dl_audit>>

\* download.py lines 63-67: every zip of the session directory is removed
RemoveZips ==
    /\ dlPc = "extracting"
    /\ zips = <<>>
    /\ disk' = {}
    /\ dlExit' = "returned"
    /\ dlPc' = "done"
    /\ UNCHANGED <<outsideDownload, dlInputs, tasks, dl_yielded, zip_entries, zips,
                   written, dl_audit, dlError>>

\* ------------------------------ UploadService.upload_session_resource_zip_dir

\* retry_on_network_error(..., max_retries: int = 4, ...)
DEFAULT_MAX_RETRIES == 4

\* what a path under local_dir is: a file that can be read, a directory
\* (skipped by `if not path.is_file()`), a file whose read fails
PathKinds == {"file", "dir", "unreadable"}

ZipAuditRecord(operation, success) == [operation |-> operation, success |-> success]

\* the call, with validated arguments; retry_on_network_error is called with
\* its default max_retries and backoff_base
ZipInit ==
    /\ local_files \in UNION {[1..n -> PathKinds] : n \in 0..MaxZipPaths}
    /\ tmp_zip = "none"
    /\ zip_index = 1
    /\ zip_members = 0
    /\ zip_audit = <<>>
    /\ zipPc = "start"
    /\ zipExit = "none"
    /\ zipError = ""
    /\ max_retries = DEFAULT_MAX_RETRIES
    /\ backoff_base = 2
    /\ attempt = 0
    /\ last_exc = NoException
    /\ calls = <<>>
    /\ sleeps = <<>>
    /\ retryPc = "idle"
    /\ retryOut = NoException

ZipIdle ==
    /\ local_files = <<>>
    /\ tmp_zip = "none"
    /\ zip_index = 1
    /\ zip_members = 0
    /\ zip_audit = <<>>
    /\ zipPc = "idle"
    /\ zipExit = "none"
    /\ zipError = ""

\* ensure_subject and ensure_session: both succeed, or one of them raises
ZipEnsure ==
    /\ zipPc = "start"
    /\ \E outcome \in {"ok", "raise"} :
        IF outcome = "ok"
        THEN /\ zipPc' = "open"
             /\ UNCHANGED <<zipExit, zipError>>
        ELSE /\ zipPc' = "done"
             /\ zipExit' = "raised"
             /\ zipError' = "XNATError"
    /\ UNCHANGED <<local_files, tmp_zip, zip_index, zip_members, zip_audit,
                   retryVars, outsideZip>>

\* zip_dir_to_temp: zipfile.ZipFile(tmp_zip, mode="w") creates the file in the
\* temporary directory, or fails to
ZipOpen ==
    /\ zipPc = "open"
    /\ \E outcome \in {"ok", "raise"} :
        IF outcome = "ok"
        THEN /\ tmp_zip' = "exists"
             /\ zipPc' = "write"
             /\ UNCHANGED <<zipExit, zipError>>
        ELSE /\ zipPc' = "done"
             /\ zipExit' = "raised"
             /\ zipError' = "OSError"
             /\ UNCHANGED tmp_zip
    /\ UNCHANGED <<local_files, zip_index, zip_members, zip_audit, retryVars,
                   outsideZip>>

\* zip_dir_to_temp: one iteration of the loop over the sorted paths; a failed
\* zf.write leaves the with block, which closes the archive, and the
\* exception leaves upload_session_resource_zip_dir at the call, before its try
ZipWrite ==
    /\ zipPc = "write"
    /\ zip_index <= Len(local_files)
    /\ CASE local_files[zip_index] = "dir" ->
              /\ zip_index' = zip_index + 1
              /\ UNCHANGED <<zip_members, zipPc, zipExit, zipError>>
         [] local_files[zip_index] = "file" ->
              /\ zip_index' = zip_index + 1
              /\ zip_members' = zip_members + 1
              /\ UNCHANGED <<zipPc, zipExit, zipError>>
         [] OTHER ->
              /\ zipPc' = "done"
              /\ zipExit' = "raised"
              /\ zipError' = "OSError"
              /\ UNCHANGED <<zip_index, zip_members>>
    /\ UNCHANGED <<local_files, tmp_zip, zip_audit, retryVars, outsideZip>>

\* zip_dir_to_temp: the loop is over, the archive is closed and its path returned
ZipReturn ==
    /\ zipPc = "write"
    /\ zip_index > Len(local_files)
    /\ zipPc' = "stat"
    /\ UNCHANGED <<local_files, tmp_zip, zip_index, zip_members, zip_audit, zipExit,
                   zipError, retryVars, outsideZip>>

\* size_mb = tmp_zip.stat().st_size / (1024 * 1024); then the try block is
\* entered and retry_on_network_error(_do_upload) called
ZipStat ==
    /\ zipPc = "stat"
    /\ \E outcome \in {"ok", "raise"} :
        IF outcome = "ok"
        THEN /\ zipPc' = "upload"
             /\ retryPc' = "loop"
             /\ UNCHANGED <<zipExit, zipError>>
        ELSE /\ zipPc' = "done"
             /\ zipExit' = "raised"
             /\ zipError' = "OSError"
             /\ UNCHANGED retryPc
    /\ UNCHANGED <<local_files, tmp_zip, zip_index, zip_members, zip_audit,
                   max_retries, backoff_base, attempt, last_exc, calls, sleeps,
                   retryOut, outsideZip>>

\* one attempt of _do_upload inside retry_on_network_error
ZipUploadAttempt == zipPc = "upload" /\ RetryAttempt

\* retry_on_network_error gives up
ZipUploadExhausted == zipPc = "upload" /\ RetryRaiseExhausted

\* retry_on_network_error returned: the audit record, then the finally clause
ZipAudit ==
    /\ zipPc = "upload"
    /\ retryPc = "returned"
    /\ zip_audit' = Append(zip_audit, ZipAuditRecord("upload_resource_zip", TRUE))
    /\ zipPc' = "finally"
    /\ UNCHANGED <<local_files, tmp_zip, zip_index, zip_members, zipExit, zipError,
                   retryVars, outsideZip>>

\* retry_on_network_error raised: the finally clause runs with the exception
\* in flight
ZipUploadRaised ==
    /\ zipPc = "upload"
    /\ retryPc = "raised"
    /\ zipError' = retryOut.kind
    /\ zipPc' = "finally"
    /\ UNCHANGED <<local_files, tmp_zip, zip_index, zip_members, zip_audit, zipExit,
                   retryVars, outsideZip>>

\* finally: tmp_zip.unlink(), an exception of it logged and dropped
ZipFinally ==
    /\ zipPc = "finally"
    /\ \E outcome \in {"ok", "raise"} :
        tmp_zip' = IF outcome = "ok" THEN "removed" ELSE tmp_zip
    /\ zipExit' = IF zipError = "" THEN "returned" ELSE "raised"
    /\ zipPc' = "done"
    /\ UNCHANGED <<local_files, zip_index, zip_members, zip_audit, zipError,
                   retryVars, outsideZip>>

\* ----------------------------------------------------------- specifications
SplitInit ==
    /\ files \in DupFreeSeqs(FileIds)
    /\ num_batches \in -1..MaxBatches
    /\ batches = <<>>
    /\ splitPc = "call"

SplitIdle == splitPc = "idle"

SplitIdleValues ==
    /\ files = <<>>
    /\ num_batches = 0
    /\ batches = <<>>

SplitCall ==
    /\ splitPc = "call"
    /\ batches' = split_into_batches(files, num_batches)
    /\ splitPc' = "done"
    /\ UNCHANGED <<files, num_batches, outsideSplit>>

ProgramIdle ==
    /\ SplitIdle
    /\ SplitIdleValues
    /\ UploadIdle
    /\ RetryIdle
    /\ StoreIdle

ServicesIdle == ScansIdle /\ ConnIdle /\ DownloadIdle /\ ZipIdle

InitSplit == SplitInit /\ UploadIdle /\ RetryIdle /\ StoreIdle /\ ServicesIdle
NextSplit == SplitCall
SpecSplit == InitSplit /\ [][NextSplit]_vars

InitUpload == UploadInit /\ SplitIdle /\ RetryIdle /\ StoreIdle /\ ServicesIdle
NextUpload ==
    \/ ScanFails
    \/ ScanEmpty
    \/ ScanAndSplit
    \/ \E i \in BatchIds : ArchiveStart(i)
    \/ \E i \in BatchIds : ArchiveFinish(i)
    \/ \E i \in BatchIds : ArchiveCollect(i)
    \/ ArchiveRaise
    \/ \E i \in BatchIds : UploadOpen(i)
    \/ \E i \in BatchIds : UploadSend(i)
    \/ \E i \in BatchIds : UploadCollect(i)
SpecUpload == InitUpload /\ [][NextUpload]_vars

InitRetry ==
    /\ RetryInit
    /\ SplitIdle
    /\ SplitIdleValues
    /\ UploadIdle
    /\ StoreIdle
    /\ ServicesIdle
NextRetry ==
    \/ RetryAttempt
    \/ RetryRaiseExhausted
SpecRetry == InitRetry /\ [][NextRetry]_vars

InitStore ==
    /\ StoreInit
    /\ SplitIdle
    /\ num_batches = 0
    /\ batches = <<>>
    /\ UploadIdle
    /\ RetryIdle
    /\ ServicesIdle
NextStore ==
    \/ StoreNotDir
    \/ StoreEchoFails
    \/ StoreNoFiles
    \/ StoreSplit
    \/ \E i \in DOMAIN send : SendAssociate(i)
    \/ \E i \in DOMAIN send : SendFile(i)
    \/ \E i \in DOMAIN send : SendRelease(i)
    \/ \E i \in DOMAIN send : StoreCollect(i)
    \/ StoreRaise
SpecStore == InitStore /\ [][NextStore]_vars

InitScans == ScansInit /\ ProgramIdle /\ ConnIdle /\ DownloadIdle /\ ZipIdle
NextScans ==
    \/ ScansListRaises
    \/ ScansNoScans
    \/ ScansPlanRaises
    \/ ScansNothingToDelete
    \/ ScansDryRun
    \/ ScansStartDeletion
    \/ \E k \in DOMAIN jobs, w \in 1..MaxScanWorkers : DeleteStart(k, w)
    \/ \E k \in DOMAIN jobs, outcome \in DeleteOutcomes : DeleteFinish(k, outcome)
    \/ DeleteYield
    \/ \E outcome \in DeleteOutcomes : DeleteSerial(outcome)
    \/ ScansComplete
SpecScans == InitScans /\ [][NextScans]_vars

InitConn == ConnInit /\ ProgramIdle /\ ScansIdle /\ DownloadIdle /\ ZipIdle
NextConn ==
    \/ \E t \in ConnThreads : InterfaceCheck(t)
    \/ \E t \in ConnThreads : InterfaceCreate(t)
    \/ \E t \in ConnThreads : InterfaceSend(t)
    \/ ConnClose
    \/ \E outcome \in {"200", "non200", "html", "refused"} : SessionOpen(outcome)
    \/ \E outcome \in {"200", "non200", "timeout", "aborted"} : SessionUpload(outcome)
    \/ SessionClose
SpecConn == InitConn /\ [][NextConn]_vars

InitDownload == DownloadInit /\ ProgramIdle /\ ScansIdle /\ ConnIdle /\ ZipIdle
NextDownload ==
    \/ DlStart
    \/ \E k \in DOMAIN tasks : TaskStart(k)
    \/ \E k \in DOMAIN tasks, n \in 0..Len(labels),
          how \in StreamOutcomes \cup {"list_error"} :
            TaskFinish(k, TaskOutcome(n, how))
    \/ DlYield
    \/ DlCancel
    \/ DlRaise
    \/ \E n \in 0..Len(labels), how \in StreamOutcomes \cup {"list_error"} :
            DlSerial(TaskOutcome(n, how))
    \/ \E entries \in SeqsUpTo(ZipEntryNames, MaxEntries) : DlComplete(entries)
    \/ ExtractZip
    \/ RemoveZips
SpecDownload == InitDownload /\ [][NextDownload]_vars

InitZipUpload ==
    /\ ZipInit
    /\ SplitIdle
    /\ SplitIdleValues
    /\ UploadIdle
    /\ StoreIdle
    /\ ScansIdle
    /\ ConnIdle
    /\ DownloadIdle
NextZipUpload ==
    \/ ZipEnsure
    \/ ZipOpen
    \/ ZipWrite
    \/ ZipReturn
    \/ ZipStat
    \/ ZipUploadAttempt
    \/ ZipUploadExhausted
    \/ ZipAudit
    \/ ZipUploadRaised
    \/ ZipFinally
SpecZipUpload == InitZipUpload /\ [][NextZipUpload]_vars

\* -------------------------------------------------------------------- claims
\* number of (batch, position) places at which file f occurs
Occurrences(bs, f) ==
    Cardinality({p \in UNION {{<<b, j>> : j \in 1..Len(bs[b])} : b \in 1..Len(bs)} :
                    bs[p[1]][p[2]] = f})

\* C1: for a non-empty duplicate-free file list and n >= 1, every input file
\* is in exactly one batch, the batches hold input files only, and any two
\* batch sizes differ by at most 1.
C1_PartitionBalanced ==
    (splitPc = "done" /\ Len(files) > 0 /\ num_batches >= 1) =>
        /\ \A f \in Range(files) : Occurrences(batches, f) = 1
        /\ \A b \in 1..Len(batches) : Range(batches[b]) \subseteq Range(files)
        /\ \A a, b \in 1..Len(batches) : Len(batches[a]) - Len(batches[b]) <= 1

\* a split of several files into several batches has happened
C1_Witness ==
    /\ splitPc = "done"
    /\ Len(files) = 4
    /\ num_batches = 3
    /\ Len(batches) = 3

\* C2 as stated: every returned UploadSummary, on every return path, has
\* batches_succeeded + batches_failed = N and success <=> batches_failed = 0.
C2_AccountingOnEveryReturn ==
    exit = "returned" =>
        /\ summary.batches_succeeded + summary.batches_failed = N
        /\ summary.success <=> (summary.batches_failed = 0)

\* C2 amended: every returned UploadSummary has batches_succeeded +
\* batches_failed = N; success <=> batches_failed = 0 holds for the summary
\* returned after the upload stage, while the two early returns (scan failure,
\* no DICOM files) report success = false with batches_failed = 0.
C2_Accounting ==
    exit = "returned" =>
        /\ summary.batches_succeeded + summary.batches_failed = N
        /\ N > 0 => (summary.success <=> (summary.batches_failed = 0))
        /\ N = 0 => (~summary.success /\ summary.batches_failed = 0)

\* a run of two batches has returned with one batch succeeded and one failed
C2_Witness ==
    /\ exit = "returned"
    /\ N = 2
    /\ summary.batches_succeeded = 1
    /\ summary.batches_failed = 1

C4_ArchiveFailureReturnsSummary ==
    (exit # "none" /\ \E i \in DOMAIN archive_futures : archive_futures[i] = "failed") =>
        /\ exit = "returned"
        /\ ~summary.success
        /\ temp_dir = "removed"
        /\ futures = <<>>

C6_SessionAlwaysReleased ==
    \A b \in DOMAIN futures :
        (futures[b].state = "finished" /\ AUTH \in Range(http[b])) =>
            RELEASE \in Range(http[b])

RetryDone == retryPc \in {"returned", "raised"}

\* C7: with max_retries = m, fn is invoked at most m+1 times; when all m+1
\* invocations raise an error the except clause catches, RetryExhaustedError
\* is raised with attempts = m+1 and last_error = the exception of the final
\* invocation.
C7_ExhaustionAfterAllAttempts ==
    /\ Len(calls) <= Max(0, max_retries + 1)
    /\ (/\ RetryDone
        /\ max_retries >= 0
        /\ Len(calls) = max_retries + 1
        /\ \A k \in 1..Len(calls) : calls[k].kind # "ok" /\ IsCaught(calls[k].kind))
       => /\ retryPc = "raised"
          /\ retryOut = RetryExhaustedError(max_retries + 1, calls[max_retries + 1])

\* five consecutive transient failures with max_retries = 4 have exhausted the
\* retries
C7_Witness ==
    /\ retryPc = "raised"
    /\ max_retries = 4
    /\ Len(calls) = 5
    /\ retryOut.kind = "RetryExhaustedError"

\* the exceptions the retry engine is specified to treat as transient network
\* errors: connection error/reset, chunked-encoding error, broken pipe,
\* generic OS I/O error, timeout
TransientNetworkErrors ==
    {"requests.ConnectionError", "requests.Timeout", "requests.ChunkedEncodingError",
     "ConnectionResetError", "BrokenPipeError", "FileNotFoundError"}

\* C8: an exception of fn that is not a transient network error (such as the
\* HTTP-status error of raise_for_status) propagates from the invocation that
\* raised it, with no sleep and no retry; raised by the first invocation, it
\* propagates after exactly one invocation.
C8_NonTransientNotRetried ==
    \A k \in 1..Len(calls) :
        (calls[k].kind # "ok" /\ calls[k].kind \notin TransientNetworkErrors) =>
            /\ Len(calls) = k
            /\ retryPc = "raised"
            /\ retryOut = calls[k]
            /\ Len(sleeps) = k - 1

\* C9: when fn raises caught network errors on its first k-1 invocations and
\* returns on invocation k, retry_on_network_error returns that value after
\* exactly k invocations and fn is never invoked again.
C9_SuccessAfterRetries ==
    \A k \in 1..Len(calls) :
        (/\ calls[k].kind = "ok"
         /\ \A j \in 1..(k - 1) : calls[j].kind # "ok" /\ IsCaught(calls[j].kind)) =>
            /\ Len(calls) = k
            /\ retryPc = "returned"
            /\ retryOut = calls[k]

\* the first attempt failed with a transient error and the second succeeded
C9_Witness ==
    /\ retryPc = "returned"
    /\ Len(calls) = 2
    /\ calls[1].kind = "requests.Timeout"
    /\ calls[2].kind = "ok"
    /\ retryOut.id = 2

\* C10: every DICOMStoreSummary returned by send_dicom_store has
\* sent + failed = total_files and success <=> failed = 0, whatever the
\* associations and the files met.
C10_StoreAccounting ==
    storeExit = "returned" =>
        /\ storeSummary.sent + storeSummary.failed = storeSummary.total_files
        /\ storeSummary.total_files = Len(files)
        /\ storeSummary.success <=> (storeSummary.failed = 0)

\* a summary has been returned for a run in which one batch's association was
\* rejected and another batch stored a file
C10_Witness ==
    /\ storeExit = "returned"
    /\ \E i \in DOMAIN send : send[i].assoc = "rejected"
    /\ \E i \in DOMAIN send : send[i].assoc = "released" /\ send[i].sent > 0
    /\ storeSummary.failed > 0

\* C11: when the pre-flight C-ECHO fails (association rejected, or no
\* 0x0000 status) send_dicom_store raises RuntimeError "C-ECHO failed..."
\* before any file is discovered or any batch worker started, and with
\* cleanup = true the workspace directory is gone afterwards.
C11_EchoFailureStopsEarly ==
    (dicom_root_is_dir /\ echo # "status_ok") =>
        /\ files = <<>>
        /\ chunks = <<>>
        /\ send = <<>>
        /\ storePc = "done" =>
              /\ storeExit = "raised"
              /\ storeError = "RuntimeError: C-ECHO failed - check host/port/AET settings"
              /\ cleanup => work = "removed"

\* the C-ECHO got a failure status, the error was raised and the workspace
\* cleaned up
C11_Witness ==
    /\ storePc = "done"
    /\ echo = "status_fail"
    /\ cleanup
    /\ storeExit = "raised"
    /\ work = "removed"

\* C12: an association that send_batch established is released before
\* send_batch exits, whether it returns or an exception leaves it.
C12_AssociationAlwaysReleased ==
    \A i \in DOMAIN send :
        send[i].state \in {"returned", "raised"} => send[i].assoc # "established"

\* C20: with no DICOM-like file under the source directory the run returns
\* success = false, total_files = 0, errors = ["No DICOM files found"], and
\* has made no temp directory, opened no session and sent no import request.
C20_EmptySourceFailsCleanly ==
    (source_is_dir /\ source_files = {} /\ pc # "start") =>
        /\ pc = "done"
        /\ exit = "returned"
        /\ ~summary.success
        /\ summary.total_files = 0
        /\ summary.errors = <<"No DICOM files found">>
        /\ temp_dir = "none"
        /\ archive_futures = <<>>
        /\ futures = <<>>
        /\ http = <<>>

\* a run over an empty directory has returned
C20_Witness ==
    /\ source_is_dir
    /\ source_files = {}
    /\ exit = "returned"
    /\ summary.errors = <<"No DICOM files found">>

\* the requested IDs as validate_scan_id returns them
RequestedIds ==
    [i \in DOMAIN scan_ids.ids |-> validate_scan_id(scan_ids.ids[i]).value]

\* C13: for delete_scans called with an explicit list of scan IDs, every
\* requested ID absent from the live listing is in the result's skipped list
\* and every requested ID present in it is in the delete set, for every live
\* listing, the empty one included.
C13_AbsentSkippedPresentDeleted ==
    (scansExit = "returned" /\ ~scan_ids.none) =>
        \A i \in DOMAIN RequestedIds :
            ~validate_scan_id(scan_ids.ids[i]).raised =>
            IF RequestedIds[i] \in Range(available_scans)
            THEN RequestedIds[i] \in Range(scans_to_delete)
            ELSE RequestedIds[i] \in Range(scansResult.skipped)

\* the IDs a run would delete: every listed scan, or the requested ones that
\* are listed, in the order of the request
WouldDelete ==
    IF scan_ids.none THEN available_scans
    ELSE SelectSeq(RequestedIds, LAMBDA s : s \in Range(available_scans))

\* C14: delete_scans with dry_run=true never changes the server's scan set
\* and never invokes a deletion; it returns the plan: deleted = the IDs that
\* would be deleted, failed = {}, dry_run = true (scans {1,2,3}, request 1,5
\* gives deleted [1], skipped [5]).
C14_DryRunDeletesNothing ==
    /\ [](dry_run =>
            /\ jobs = <<>>
            /\ scansExit = "returned" =>
                  /\ scansResult.deleted = WouldDelete
                  /\ scansResult.failed = {}
                  /\ scansResult.dry_run = TRUE
                  /\ (available_scans = ScanOrder /\ scan_ids = SomeIds(<<Str1, Str5>>))
                        => scansResult = ScansResult(<<Str1>>, {}, <<Str5>>, TRUE))
    /\ [][dry_run => server_scans' = server_scans]_vars

C14_Witness ==
    /\ dry_run
    /\ scansExit = "returned"
    /\ scan_ids = SomeIds(<<Str1, Str5>>)
    /\ server_scans = {Str1, Str2, Str3}
    /\ scansResult = ScansResult(<<Str1>>, {}, <<Str5>>, TRUE)

\* C17: the log record a pool worker writes inside _delete_one carries the
\* correlation id of the delete_scans call that spawned the worker.
C17_WorkersCarryParentId ==
    \A k \in DOMAIN jobs :
        jobs[k].state = "done" => jobs[k].cid = ctx[MainThread]

\* C18: on every exit path of delete_scans (completion, early return, raised
\* error) an audit record of the operation has been written.
C18_AuditOnEveryExit ==
    scansPc = "done" => \E i \in DOMAIN audit : audit[i].operation = "delete_scans"

\* C15: once a connection's session has been released (XNATConnection.close
\* disconnected its interface, XNATSession.close_session sent the DELETE), no
\* request is sent through that object any more.
C15_NoRequestAfterRelease ==
    /\ \A r \in requests : ~r.after_release
    /\ \A i, j \in DOMAIN xs_http :
          (i < j /\ xs_http[i] = RELEASE) => xs_http[j] \notin {AUTH, IMPORT}

\* C16: between construction and close an XNATConnection builds its
\* interface at most once, under every interleaving of the tasks sharing it.
C16_InterfaceCreatedOnce == epoch_created <= 1

\* C19: while a downloaded session archive is extracted, an entry whose path
\* has a '..' component or is absolute is refused, never written, and no file
\* is written outside the archive's target directory.
C19_TraversalEntriesRejected ==
    \A w \in written : ~Traversal(w.entry) /\ ~Escapes(w.path)

\* C21: split_into_batches returns min(n, |files|) batches, none empty, for
\* n >= 1 and a non-empty list; one batch holding every file for n <= 0; no
\* batch for an empty list.
C21_BatchCount ==
    splitPc = "done" =>
        /\ (Len(files) > 0 /\ num_batches >= 1) =>
              /\ Len(batches) = (IF num_batches < Len(files) THEN num_batches
                                 ELSE Len(files))
              /\ \A b \in 1..Len(batches) : batches[b] # <<>>
        /\ (Len(files) > 0 /\ num_batches <= 0) => batches = <<files>>
        /\ Len(files) = 0 => batches = <<>>

\* more batches were asked for than there are files
C21_Witness ==
    /\ splitPc = "done"
    /\ Len(files) = 3
    /\ num_batches = 5
    /\ Len(batches) = 3

\* C22: no batch upload and no session authentication starts before every
\* batch archive has been written: while an archive is pending, running or
\* failed no upload_batch exists, whatever the worker counts.
C22_ArchivingIsBarrier ==
    (futures # <<>> \/ http # <<>> \/ conn # <<>>) =>
        \A i \in DOMAIN archive_futures : archive_futures[i] = "ok"

\* two batches were archived and an upload has sent its first request
C22_Witness ==
    /\ N = 2
    /\ http # <<>>
    /\ http[1] # <<>>
    /\ \A i \in DOMAIN archive_futures : archive_futures[i] = "ok"

TerminalPhases == {"complete", "error"}

\* C23: the progress events of a run are monotonic in phase: no "archiving"
\* event follows an "uploading" event; there is at most one terminal event,
\* it follows every "uploading" event and nothing follows it; a run that
\* returns after uploading ends with it.
C23_PhasesMonotonic ==
    /\ \A i, j \in DOMAIN events :
          (i < j /\ events[i] = "uploading") => events[j] # "archiving"
    /\ \A i \in DOMAIN events : events[i] \in TerminalPhases => i = Len(events)
    /\ (exit = "returned" /\ "uploading" \in Range(events)) =>
          events[Len(events)] \in TerminalPhases

\* a run of two batches, one of which failed, has ended with its error event
C23_Witness ==
    /\ exit = "returned"
    /\ N = 2
    /\ events = <<"archiving", "archiving", "archiving", "archiving", "uploading",
                  "uploading", "uploading", "error">>

\* C24: each batch archive is POSTed to /data/services/import at most once
\* in a run; a failed batch is not uploaded again.
C24_NoAutomaticReupload ==
    \A b \in DOMAIN http :
        Cardinality({k \in DOMAIN http[b] : http[b][k] = IMPORT}) <= 1

\* the run has returned with a batch whose import was sent once and failed
C24_Witness ==
    /\ exit = "returned"
    /\ \E k \in DOMAIN results :
          /\ ~results[k].success
          /\ Cardinality({j \in DOMAIN http[results[k].batch_id] :
                            http[results[k].batch_id][j] = IMPORT}) = 1

Bundles == {"assessors", "reconstructions"}

\* C25: a failed assessor or reconstruction download never raises and never
\* stops the other tasks: tasks are cancelled and download_session raises
\* only for a failed scans or session-resource download, and it returns when
\* these two have succeeded, whatever the bundles met.
C25_BundleFailureNotFatal ==
    /\ \A k \in DOMAIN tasks : tasks[k].kind \in Bundles => tasks[k].state # "raised"
    /\ (dlError = "exception of a download task" \/ dlPc = "raising"
            \/ \E k \in DOMAIN tasks : tasks[k].state = "cancelled") =>
          \E k \in DOMAIN tasks :
              /\ tasks[k].kind \notin Bundles
              /\ tasks[k].state = "raised"
              /\ tasks[k].how # "ok"
    /\ dl_audit # <<>> =>
          \A k \in DOMAIN tasks : tasks[k].state = "done"
    /\ (dlPc = "done" /\ \A k \in DOMAIN tasks : tasks[k].kind \notin Bundles =>
                                                    tasks[k].how = "ok") =>
          dl_audit # <<>>
    /\ \A k \in DOMAIN tasks :
          (tasks[k].kind \notin Bundles /\ tasks[k].how \notin {"ok", "none"}) =>
              /\ dl_audit = <<>>
              /\ dlPc = "done" => dlExit = "raised"

\* download_session has returned although the assessor download failed
C25_Witness ==
    /\ dl_audit # <<>>
    /\ \E k \in DOMAIN tasks :
          tasks[k].kind = "assessors" /\ tasks[k].how = "broken_stream"
    /\ \E k \in DOMAIN tasks : tasks[k].kind = "scans" /\ tasks[k].how = "ok"
    /\ \E k \in DOMAIN tasks : tasks[k].kind = "resources" /\ tasks[k].how = "ok"

\* the file a bundle task downloads into
BundleFile(kind) ==
    IF kind = "assessors" THEN ZipName("assessor_resources.zip", <<>>)
    ELSE ZipName("recon_resources.zip", <<>>)

\* C29: when download_assessor_or_recon_resources_zip has omitted a bundle
\* (a failed download, None returned), the session directory holds no
\* assessor_resources.zip / recon_resources.zip for it.
C29_OmittedBundleLeavesNoFile ==
    \A k \in DOMAIN tasks :
        (tasks[k].kind \in Bundles /\ tasks[k].state = "done" /\ tasks[k].how # "ok") =>
            ~\E f \in disk : f.name = BundleFile(tasks[k].kind)

\* C30: once download_session_resources_zip has downloaded every label, the
\* session directory holds one resources_<label>.zip per distinct label of
\* the session.
C30_DistinctLabelsDistinctFiles ==
    (dlPc \in {"downloading", "raising"}
        /\ \E k \in DOMAIN tasks :
              tasks[k].kind = "resources" /\ tasks[k].how = "ok") =>
        Cardinality({f \in disk : f.name.kind = "resources_"})
            = Cardinality(Range(labels))

\* C27: after the failed attempt number n (0-based) retry_on_network_error
\* sleeps backoff_base^(n+1) seconds, and only when another attempt follows:
\* the sleeps so far are one per caught failure that was not the last allowed
\* attempt, the i-th of them backoff_base^i; with max_retries = 4 and base 2
\* five failures leave exactly the waits 2, 4, 8, 16.
C27_BackoffSchedule ==
    /\ Len(sleeps) = (IF attempt <= max_retries THEN attempt
                      ELSE IF max_retries < 0 THEN 0 ELSE max_retries)
    /\ \A i \in 1..Len(sleeps) : sleeps[i] = Pow(backoff_base, i)
    /\ (max_retries = 4 /\ backoff_base = 2 /\ attempt = 5)
          => sleeps = <<2, 4, 8, 16>>

\* five caught failures under the defaults: four sleeps, none after the fifth
C27_Witness ==
    /\ max_retries = 4
    /\ backoff_base = 2
    /\ attempt = 5
    /\ Len(calls) = 5
    /\ retryPc = "raised"
    /\ sleeps = <<2, 4, 8, 16>>

\* C28: in the result of a non-dry-run delete_scans that went through the
\* deletion, the deleted list and the keys of the failed map are disjoint and
\* together are exactly the scan IDs of the delete set, each of them accounted
\* once, for every request (one naming a scan ID twice included), serial and
\* parallel.
C28_DeletedFailedPartition ==
    (scansExit = "returned" /\ scansPc = "done" /\ ~dry_run
        /\ scans_to_delete # <<>>) =>
        /\ Range(scansResult.deleted) \cap DictKeys(scansResult.failed) = {}
        /\ Range(scansResult.deleted) \cup DictKeys(scansResult.failed)
              = Range(scans_to_delete)
        /\ Len(scansResult.deleted) + Cardinality(DictKeys(scansResult.failed))
              = Cardinality(Range(scans_to_delete))

\* C26: the temporary zip created by upload_session_resource_zip_dir is
\* removed on every exit path of the operation: a successful upload, a
\* non-transient upload error, retry exhaustion, and a failure while the zip
\* is being created or measured; no exit leaves the zip on disk.
C26_TempZipRemovedOnExit ==
    zipExit # "none" => tmp_zip # "exists"
====
